---- MODULE Spec2Model ----
(***************************************************************************)
(* A model of the 5C credit analysis pipeline: the DataProcessor           *)
(* (src/data_processor.py) that turns two raw tables into one unified      *)
(* borrower table, and the CreditScoringEngine (src/credit_scoring.py)     *)
(* that scores borrower rows with a replaceable weight map.                *)
(*                                                                         *)
(* Numbers are exact rationals [n, d] in lowest terms with d > 0; the      *)
(* program computes in IEEE doubles, so results that the model finds equal *)
(* can differ in the last bit in the program.                              *)
(***************************************************************************)
EXTENDS Integers, Sequences, FiniteSets, TLC

VARIABLES
    \* the scorers applied to one borrower row
    row,        \* the borrower row handed to the scorers (field name -> value)
    comps,      \* the outcome of each of the five component scorers on row
    rec,        \* the outcome of calculate_individual_scores on row
    spc,        \* which of the two have been applied to row
    \* one CreditScoringEngine and its callers
    weights,    \* self.weights
    pc,         \* where the calculate_individual_scores call in flight stands
    call,       \* that call's locals: row, scores, the items iterator, the sum
    returned,   \* what the calls have returned or raised, oldest first
    supplied,   \* history kept under Spec: the constructor's map, then each
                \* map passed to update_weights, oldest first
    \* one DataProcessor.process_sme_data call
    df1, df2,   \* the caller's two raw tables
    norm,       \* the call's outcome: the exception raised or the table
                \* returned, and the table as _engineer_features returned it
    \* the dashboard (app.py main) driving one engine
    data,       \* self.data, the table the engine was constructed with
    ui,         \* the sidebar as main last read it: scenario and sliders
    scores,     \* what the last scoring call returned, and under which map
    session,    \* st.session_state, and where the rerun of main stands
    \* a function of the program applied to drawn arguments
    arg,        \* the arguments
    result      \* what the function returned for them

scorerVars == <<row, comps, rec, spc>>
engineVars == <<weights, pc, call, returned, supplied>>
normVars == <<df1, df2, norm>>
appVars == <<data, ui, scores, session>>
funVars == <<arg, result>>
vars == <<row, comps, rec, spc, weights, pc, call, returned, supplied, df1, df2, norm,
          data, ui, scores, session, arg, result>>

----------------------------------------------------------------------------
(* Rational arithmetic *)

Abs(i) == IF i < 0 THEN -i ELSE i

RECURSIVE GCD(_, _)
GCD(a, b) == IF b = 0 THEN a ELSE GCD(b, a % b)

\* n/d in lowest terms, d > 0 (d # 0 is the caller's duty)
Q(n, d) ==
    LET g == GCD(Abs(n), Abs(d))
        s == IF d < 0 THEN -1 ELSE 1
    IN  [n |-> s * (n \div g), d |-> s * (d \div g)]

Zero == Q(0, 1)
One == Q(1, 1)
Half == Q(1, 2)

RAdd(a, b) == Q(a.n * b.d + b.n * a.d, a.d * b.d)
RSub(a, b) == Q(a.n * b.d - b.n * a.d, a.d * b.d)
RMul(a, b) == Q(a.n * b.n, a.d * b.d)
RDiv(a, b) == Q(a.n * b.d, a.d * b.n)
RLe(a, b) == a.n * b.d <= b.n * a.d
RLt(a, b) == a.n * b.d < b.n * a.d
RGe(a, b) == RLe(b, a)
RGt(a, b) == RLt(b, a)
RMin(a, b) == IF RLe(a, b) THEN a ELSE b
RMax(a, b) == IF RGe(a, b) THEN a ELSE b
InUnit(a) == RLe(Zero, a) /\ RLe(a, One)

----------------------------------------------------------------------------
(* Cell values: a finite number, the missing marker NaN, +-infinity, or     *)
(* text.  All four share one record shape so that any two can be compared. *)

Num(r) == [k |-> "num", n |-> r.n, d |-> r.d, s |-> ""]
Int2V(i) == Num(Q(i, 1))
NaN == [k |-> "nan", n |-> 0, d |-> 1, s |-> ""]
Inf(sign) == [k |-> "inf", n |-> sign, d |-> 1, s |-> ""]
Txt(s) == [k |-> "str", n |-> 0, d |-> 1, s |-> s]
RatOf(v) == [n |-> v.n, d |-> v.d]

IsNum(v) == v.k = "num"
IsNull(v) == v.k = "nan"
IsTxt(v) == v.k = "str"

----------------------------------------------------------------------------
(* Text, character by character (str.lower, the `in` substring test) *)

UpperChars == "ABCDEFGHIJKLMNOPQRSTUVWXYZ"
LowerChars == "abcdefghijklmnopqrstuvwxyz"

CharAt(s, i) == SubSeq(s, i, i)

\* the lower-case letter of each upper-case letter
LowerOf ==
    [c \in {CharAt(UpperChars, i) : i \in 1..Len(UpperChars)} |->
        CharAt(LowerChars, CHOOSE i \in 1..Len(UpperChars) : CharAt(UpperChars, i) = c)] @@ <<>>

LowerChar(c) == IF c \in DOMAIN LowerOf THEN LowerOf[c] ELSE c

\* the text with F applied to each character from the i-th on
RECURSIVE MapChars(_, _, _)
MapChars(s, F(_), i) ==
    IF i > Len(s) THEN "" ELSE F(CharAt(s, i)) \o MapChars(s, F, i + 1)

Lower(s) == MapChars(s, LowerChar, 1)

\* Python's `sub in s`
Contains(s, sub) ==
    \E i \in 1..(Len(s) - Len(sub) + 1) : SubSeq(s, i, i + Len(sub) - 1) = sub

\* str(x) of a cell: the text itself; a number prints as digits, which hold
\* none of the keywords the scorers look for
StrOf(v) == IF IsTxt(v) THEN v.s ELSE "0"

----------------------------------------------------------------------------
(* CreditScoringEngine: the five component scorers.                        *)
(* Each sub-rule yields [err, s, c]: the exception it raises (or ""), its  *)
(* addition to `score` and its addition to `components`.                   *)

Components == <<"character", "capacity", "capital", "collateral", "conditions">>
ComponentSet == {Components[i] : i \in 1..Len(Components)}

\* 'f' in row and pd.notnull(row['f'])
Has(r, f) == f \in DOMAIN r /\ ~IsNull(r[f])

Skip == [err |-> "", s |-> Zero, c |-> Zero]
Part(sub, w) == [err |-> "", s |-> RMul(sub, w), c |-> w]
Raise(e) == [err |-> e, s |-> Zero, c |-> Zero]

\* float(row['f']) of a present cell raises ValueError on non-numeric text
FloatPart(r, f, F(_), w) ==
    IF IsTxt(r[f]) THEN Raise("ValueError") ELSE Part(F(RatOf(r[f])), w)

Returned(v) == [err |-> "", v |-> v]
Raised(e) == [err |-> e, v |-> Zero]

RECURSIVE SumS(_, _)
SumS(parts, i) == IF i = 0 THEN Zero ELSE RAdd(SumS(parts, i - 1), parts[i].s)
RECURSIVE SumC(_, _)
SumC(parts, i) == IF i = 0 THEN Zero ELSE RAdd(SumC(parts, i - 1), parts[i].c)

\* a scorer that answers 0 when it has no data
NeutralZero == Zero

NeutralDefault == Half

\* return score / components if components > 0 else 0.5
\* (the first sub-rule that raises ends the call)
Finish(parts) ==
    IF \E i \in 1..Len(parts) : parts[i].err # ""
    THEN Raised(parts[CHOOSE i \in 1..Len(parts) :
                        /\ parts[i].err # ""
                        /\ \A j \in 1..(i - 1) : parts[j].err = ""].err)
    ELSE LET s == SumS(parts, Len(parts))
             c == SumC(parts, Len(parts))
         IN  Returned(IF RGt(c, Zero) THEN RDiv(s, c) ELSE NeutralDefault)

\* min(x / top, 1.0)
Ramp(x, top) == RMin(RDiv(x, Q(top, 1)), One)
credit_years_score(x) == Ramp(x, 10)
exp_score(x) == Ramp(x, 15)
business_score(x) == Ramp(x, 10)

payment_score(delays) ==
    IF delays = Zero THEN One
    ELSE IF RLe(delays, Q(2, 1)) THEN Q(8, 10)
    ELSE IF RLe(delays, Q(5, 1)) THEN Q(6, 10)
    ELSE RMax(Q(2, 10), RSub(One, RDiv(delays, Q(10, 1))))

\* the credit score normalized over the range 300 to 900
NormalizedTo900(raw) == RMax(Zero, RMin(One, RDiv(RSub(raw, Q(300, 1)), Q(600, 1))))

\* line 60: max(0, min(1, (raw_score - 300) / 550))
normalized_score(raw) == RMax(Zero, RMin(One, RDiv(RSub(raw, Q(300, 1)), Q(550, 1))))

calculate_character_score(r) ==
    Finish(<<
        IF Has(r, "credit_history_years")
        THEN FloatPart(r, "credit_history_years", credit_years_score, Q(30, 100)) ELSE Skip,
        IF Has(r, "payment_delays")
        THEN FloatPart(r, "payment_delays", payment_score, Q(35, 100)) ELSE Skip,
        IF Has(r, "credit_score_raw")
        THEN FloatPart(r, "credit_score_raw", normalized_score, Q(25, 100)) ELSE Skip,
        IF Has(r, "management_experience")
        THEN FloatPart(r, "management_experience", exp_score, Q(10, 100))
        ELSE IF Has(r, "years_in_business")
        THEN FloatPart(r, "years_in_business", business_score, Q(10, 100)) ELSE Skip
    >>)

\* the bands of loan_to_income (consumer) and loan_to_revenue (SME)
BandLow(x, a, b, c, slope) ==
    IF RLe(x, a) THEN One
    ELSE IF RLe(x, b) THEN Q(8, 10)
    ELSE IF RLe(x, c) THEN Q(6, 10)
    ELSE RMax(Q(2, 10), RSub(One, RMul(RDiv(RSub(x, c), slope), Q(6, 10))))

loan_to_income_score(loan, monthly_income) ==
    LET lti == IF RGt(monthly_income, Zero)
               THEN RDiv(loan, RMul(monthly_income, Q(12, 1))) ELSE Q(999, 1)
    IN  BandLow(lti, Q(2, 10), Q(4, 10), Q(6, 10), Q(4, 10))

loan_to_revenue_score(loan, annual_revenue) ==
    LET ltr == IF RGt(annual_revenue, Zero) THEN RDiv(loan, annual_revenue) ELSE Q(999, 1)
    IN  BandLow(ltr, Q(15, 100), Q(25, 100), Q(35, 100), Q(35, 100))

\* >= 2.0 -> 1.0, >= 1.5 -> 0.8, >= 1.0 -> 0.6, else max(0, x * 0.4)
BandHigh(x) ==
    IF RGe(x, Q(2, 1)) THEN One
    ELSE IF RGe(x, Q(15, 10)) THEN Q(8, 10)
    ELSE IF RGe(x, One) THEN Q(6, 10)
    ELSE RMax(Zero, RMul(x, Q(4, 10)))

cr_score(x) == BandHigh(x)
acr_score(x) == BandHigh(x)

age_score(age) ==
    IF RGe(age, Q(45, 1)) THEN One
    ELSE IF RGe(age, Q(35, 1)) THEN Q(8, 10)
    ELSE IF RGe(age, Q(25, 1)) THEN Q(6, 10)
    ELSE Q(4, 10)

\* loan_amount = row.get('loan_amount', 0); if loan_amount > 0: ...
LoanPart(r) ==
    LET loan == IF "loan_amount" \in DOMAIN r THEN r["loan_amount"] ELSE Int2V(0)
        ToIncome(x) == loan_to_income_score(RatOf(loan), x)
        ToRevenue(x) == loan_to_revenue_score(RatOf(loan), x)
    IN  IF IsTxt(loan) THEN Raise("TypeError")
        ELSE IF IsNull(loan) \/ ~RGt(RatOf(loan), Zero) THEN Skip
        ELSE IF Has(r, "transaction_amount")
        THEN FloatPart(r, "transaction_amount", ToIncome, Q(40, 100))
        ELSE IF Has(r, "annual_revenue")
        THEN FloatPart(r, "annual_revenue", ToRevenue, Q(40, 100))
        ELSE Skip

calculate_capacity_score(r) ==
    Finish(<<
        LoanPart(r),
        IF Has(r, "current_ratio")
        THEN FloatPart(r, "current_ratio", cr_score, Q(30, 100)) ELSE Skip,
        IF Has(r, "age")
        THEN FloatPart(r, "age", age_score, Q(20, 100))
        ELSE IF Has(r, "years_in_business")
        THEN FloatPart(r, "years_in_business", business_score, Q(20, 100)) ELSE Skip,
        IF Has(r, "credit_score_raw")
        THEN FloatPart(r, "credit_score_raw", normalized_score, Q(10, 100)) ELSE Skip
    >>)

dte_score(dte) ==
    IF RLe(dte, Q(5, 10)) THEN One
    ELSE IF RLe(dte, One) THEN Q(8, 10)
    ELSE IF RLe(dte, Q(2, 1)) THEN Q(6, 10)
    ELSE RMax(Zero, RMul(RDiv(RSub(Q(4, 1), dte), Q(4, 1)), Q(4, 10)))

\* min(equity_ratio * 2, 1.0)
equity_score(er) == RMin(RMul(er, Q(2, 1)), One)

\* max(0, min(wc_ratio * 4, 1.0))
wc_score(wc_ratio) == RMax(Zero, RMin(RMul(wc_ratio, Q(4, 1)), One))

\* float(row['working_capital']) / float(row['total_assets']): a Python float
\* division, which raises ZeroDivisionError on a zero divisor
WorkingCapitalPart(r) ==
    IF ~("working_capital" \in DOMAIN r /\ "total_assets" \in DOMAIN r) THEN Skip
    ELSE IF ~(Has(r, "working_capital") /\ Has(r, "total_assets")) THEN Skip
    ELSE IF IsTxt(r["working_capital"]) \/ IsTxt(r["total_assets"]) THEN Raise("ValueError")
    ELSE IF RatOf(r["total_assets"]) = Zero THEN Raise("ZeroDivisionError")
    ELSE Part(wc_score(RDiv(RatOf(r["working_capital"]), RatOf(r["total_assets"]))),
              Q(25, 100))

calculate_capital_score(r) ==
    Finish(<<
        IF Has(r, "debt_to_equity")
        THEN FloatPart(r, "debt_to_equity", dte_score, Q(40, 100)) ELSE Skip,
        IF Has(r, "equity_ratio")
        THEN FloatPart(r, "equity_ratio", equity_score, Q(35, 100)) ELSE Skip,
        WorkingCapitalPart(r)
    >>)

ltv_score(ltv) ==
    IF RLe(ltv, Q(6, 10)) THEN One
    ELSE IF RLe(ltv, Q(8, 10)) THEN Q(8, 10)
    ELSE IF RLe(ltv, One) THEN Q(6, 10)
    ELSE RMax(Zero, RMul(RDiv(RSub(Q(15, 10), ltv), Q(5, 10)), Q(4, 10)))

quality_score(v) ==
    LET t == Lower(StrOf(v))
    IN  IF Contains(t, "real_estate") \/ Contains(t, "property") THEN One
        ELSE IF Contains(t, "equipment") \/ Contains(t, "machinery") THEN Q(8, 10)
        ELSE IF Contains(t, "inventory") THEN Q(6, 10)
        ELSE IF Contains(t, "receivables") THEN Q(5, 10)
        ELSE Q(4, 10)

calculate_collateral_score(r) ==
    Finish(<<
        IF Has(r, "loan_to_value")
        THEN FloatPart(r, "loan_to_value", ltv_score, Q(50, 100)) ELSE Skip,
        IF Has(r, "asset_coverage_ratio")
        THEN FloatPart(r, "asset_coverage_ratio", acr_score, Q(30, 100)) ELSE Skip,
        IF Has(r, "collateral_type")
        THEN Part(quality_score(r["collateral_type"]), Q(20, 100)) ELSE Skip
    >>)

industry_score(v) ==
    LET t == Lower(StrOf(v))
    IN  IF t = "healthcare" THEN Q(9, 10)
        ELSE IF t = "technology" THEN Q(7, 10)
        ELSE IF t = "retail" THEN Q(6, 10)
        ELSE Q(5, 10)

type_score(v) ==
    LET t == Lower(StrOf(v))
    IN  IF t = "consumer" THEN Q(7, 10)
        ELSE IF t = "sme" THEN Q(6, 10)
        ELSE Q(5, 10)

econ_score(raw) ==
    IF RGe(raw, Q(750, 1)) THEN Q(9, 10)
    ELSE IF RGe(raw, Q(650, 1)) THEN Q(7, 10)
    ELSE IF RGe(raw, Q(550, 1)) THEN Q(5, 10)
    ELSE Q(3, 10)

\* the two market-activity bands: transaction_amount and annual_revenue
ActivityBand(x, a, b, c) ==
    IF RGe(x, Q(a, 1)) THEN Q(8, 10)
    ELSE IF RGe(x, Q(b, 1)) THEN Q(6, 10)
    ELSE IF RGe(x, Q(c, 1)) THEN Q(5, 10)
    ELSE Q(3, 10)

transaction_activity_score(x) == ActivityBand(x, 7000, 4000, 2000)
revenue_activity_score(x) == ActivityBand(x, 3000000, 1500000, 500000)

calculate_conditions_score(r) ==
    Finish(<<
        IF Has(r, "industry")
        THEN Part(industry_score(r["industry"]), Q(40, 100)) ELSE Skip,
        IF Has(r, "borrower_type")
        THEN Part(type_score(r["borrower_type"]), Q(30, 100)) ELSE Skip,
        IF Has(r, "credit_score_raw")
        THEN FloatPart(r, "credit_score_raw", econ_score, Q(20, 100)) ELSE Skip,
        IF Has(r, "transaction_amount")
        THEN FloatPart(r, "transaction_amount", transaction_activity_score, Q(10, 100))
        ELSE IF Has(r, "annual_revenue")
        THEN FloatPart(r, "annual_revenue", revenue_activity_score, Q(10, 100)) ELSE Skip
    >>)

ComponentScore(c, r) ==
    CASE c = "character" -> calculate_character_score(r)
      [] c = "capacity" -> calculate_capacity_score(r)
      [] c = "capital" -> calculate_capital_score(r)
      [] c = "collateral" -> calculate_collateral_score(r)
      [] c = "conditions" -> calculate_conditions_score(r)


----------------------------------------------------------------------------
(* CreditScoringEngine: weights and calculate_individual_scores *)

\* __init__: the weights a new engine holds
DefaultWeights ==
    [character |-> Q(20, 100), capacity |-> Q(30, 100), capital |-> Q(25, 100),
     collateral |-> Q(15, 100), conditions |-> Q(10, 100)]

\* The order in which a weight map's items are iterated: the order its keys
\* were inserted, which is this one for every map the callers build.
KeyOrder == <<"character", "capacity", "capital", "collateral", "conditions", "threshold">>

RECURSIVE KeysFrom(_, _)
KeysFrom(w, i) ==
    IF i > Len(KeyOrder) THEN <<>>
    ELSE (IF KeyOrder[i] \in DOMAIN w THEN <<KeyOrder[i]>> ELSE <<>>) \o KeysFrom(w, i + 1)
Items(w) == KeysFrom(w, 1)

\* an update that merges into the held map, as self.weights.update(new_weights)
MergedWeights(old, new) ==
    [k \in DOMAIN old \cup DOMAIN new |-> IF k \in DOMAIN new THEN new[k] ELSE old[k]]

\* an update that rescales the map it is given to sum to 1
RECURSIVE TotalOf(_, _)
TotalOf(w, keys) ==
    IF Len(keys) = 0 THEN Zero ELSE RAdd(w[Head(keys)], TotalOf(w, Tail(keys)))
RenormalizedWeights(old, new) == [c \in DOMAIN new |-> RDiv(new[c], TotalOf(new, Items(new)))]

\* self.weights = new_weights
NewWeights(old, new) == new

\* lines 350-356: the five scorers, in order; the first that raises ends the call
ScoresOf(r) == [c \in ComponentSet |-> ComponentScore(c, r)]
ScoresErr(sc) ==
    IF \A i \in 1..Len(Components) : sc[Components[i]].err = "" THEN ""
    ELSE sc[Components[CHOOSE i \in 1..Len(Components) :
                /\ sc[Components[i]].err # ""
                /\ \A j \in 1..(i - 1) : sc[Components[j]].err = ""]].err
ScoreValues(sc) == [c \in ComponentSet |-> sc[c].v]

NoScores == [c \in ComponentSet |-> Zero]
ScoreRecord(sv, total) == [err |-> "", scores |-> sv, total_score |-> total]
RaisedRecord(e) == [err |-> e, scores |-> NoScores, total_score |-> Zero]

\* scores[f'{component}_score'] * weight: a key that names no component score
\* raises KeyError
TermKnown(key) == key \in ComponentSet

\* an iteration that looks each weight up in self.weights again
RereadWeight(snap, current, key) == IF key \in DOMAIN current THEN current[key] ELSE Zero

\* the weight the iteration multiplies by: the item of the map whose items()
\* the generator took when it was created, not self.weights read again
IterWeight(snap, current, key) == snap[key]

RECURSIVE WeightedSum(_, _, _)
WeightedSum(sv, w, keys) ==
    IF Len(keys) = 0 THEN Zero
    ELSE RAdd(RMul(sv[Head(keys)], w[Head(keys)]), WeightedSum(sv, w, Tail(keys)))

\* calculate_individual_scores as one uninterrupted call under weight map w
calculate_individual_scores(w, r) ==
    LET sc == ScoresOf(r)
    IN  IF ScoresErr(sc) # "" THEN RaisedRecord(ScoresErr(sc))
        ELSE IF \E k \in DOMAIN w : ~TermKnown(k) THEN RaisedRecord("KeyError")
        ELSE ScoreRecord(ScoreValues(sc), WeightedSum(ScoreValues(sc), w, Items(w)))


----------------------------------------------------------------------------
(* The borrower rows the scorers are applied to *)

\* how many fields a drawn row holds at most
MaxPresent == 2

NumberVals(f) ==
    CASE f = "credit_history_years" -> {Q(-5, 1), Q(4, 1), Q(12, 1)}
      [] f = "payment_delays" -> {Q(0, 1), Q(4, 1), Q(12, 1)}
      [] f = "credit_score_raw" -> {Q(200, 1), Q(575, 1), Q(900, 1)}
      [] f = "management_experience" -> {Q(-24, 5), Q(6, 1), Q(15, 1)}
      [] f = "years_in_business" -> {Q(-8, 1), Q(5, 1), Q(10, 1)}
      [] f = "loan_amount" -> {Q(-1000, 1), Q(0, 1), Q(1000, 1)}
      [] f = "transaction_amount" -> {Q(0, 1), Q(500, 1), Q(5000, 1)}
      [] f = "annual_revenue" -> {Q(0, 1), Q(3000, 1), Q(2000000, 1)}
      [] f = "current_ratio" -> {Q(-1, 1), Q(1, 2), Q(3, 2)}
      [] f = "age" -> {Q(10, 1), Q(30, 1), Q(50, 1)}
      [] f = "debt_to_equity" -> {Q(-1, 1), Q(3, 2), Q(5, 1)}
      [] f = "equity_ratio" -> {Q(-1, 2), Q(1, 4), Q(1, 1)}
      [] f = "working_capital" -> {Q(-100, 1), Q(0, 1), Q(100, 1)}
      [] f = "total_assets" -> {Q(0, 1), Q(1000, 1)}
      [] f = "loan_to_value" -> {Q(1, 2), Q(9, 10), Q(2, 1)}
      [] f = "asset_coverage_ratio" -> {Q(-1, 1), Q(1, 2), Q(2, 1)}
      [] OTHER -> {}

TextVals(f) ==
    CASE f = "collateral_type" -> {"Real_Estate", "inventory", "business_assets"}
      [] f = "industry" -> {"Healthcare", "retail", "other"}
      [] f = "borrower_type" -> {"consumer", "sme"}
      [] f \in {"loan_amount", "age", "total_assets", "payment_delays"} -> {"n/a"}
      [] OTHER -> {}

CharacterFields ==
    {"credit_history_years", "payment_delays", "credit_score_raw",
     "management_experience", "years_in_business"}
CapacityFields ==
    {"loan_amount", "transaction_amount", "annual_revenue", "current_ratio", "age",
     "years_in_business", "credit_score_raw"}
CapitalFields == {"debt_to_equity", "equity_ratio", "working_capital", "total_assets"}
CollateralFields == {"loan_to_value", "asset_coverage_ratio", "collateral_type"}
ConditionsFields ==
    {"industry", "borrower_type", "credit_score_raw", "transaction_amount", "annual_revenue"}

FieldsOf(c) ==
    CASE c = "character" -> CharacterFields
      [] c = "capacity" -> CapacityFields
      [] c = "capital" -> CapitalFields
      [] c = "collateral" -> CollateralFields
      [] c = "conditions" -> ConditionsFields

CellVals(f) == {Num(q) : q \in NumberVals(f)} \cup {Txt(t) : t \in TextVals(f)} \cup {NaN}

RECURSIVE SubsetsUpTo(_, _)
SubsetsUpTo(F, k) ==
    IF k = 0 THEN {{}}
    ELSE LET P == SubsetsUpTo(F, k - 1) IN P \cup {T \cup {f} : T \in P, f \in F}

RECURSIVE RowsOver(_)
RowsOver(S) ==
    IF S = {} THEN {<<>>}
    ELSE LET f == CHOOSE x \in S : TRUE
         IN  {[g \in DOMAIN r \cup {f} |-> IF g = f THEN v ELSE r[g]] :
                 r \in RowsOver(S \ {f}), v \in CellVals(f)}

\* rows that hold all four character attributes, each at, above or below
\* the value from which its sub-score is 1.0, with or without
\* years_in_business
CharacterProfiles ==
    {[credit_history_years |-> Int2V(h), payment_delays |-> Int2V(p),
      credit_score_raw |-> Int2V(s), management_experience |-> Int2V(m)] @@ y :
        h \in {4, 10, 12}, p \in {0, 4}, s \in {575, 850, 900}, m \in {6, 15, 20},
        y \in {<<>>, [years_in_business |-> Int2V(5)]}}

\* rows that hold up to MaxPresent of the fields one scorer reads, and the
\* character profiles
ScorerRows ==
    UNION {RowsOver(S) : S \in UNION {SubsetsUpTo(FieldsOf(c), MaxPresent) : c \in ComponentSet}}
        \cup CharacterProfiles

\* every numeric field of r is a finite number, or absent/NaN
AllNumbersFinite(r) == \A f \in DOMAIN r : NumberVals(f) # {} => ~IsTxt(r[f])

NotScored == [c \in ComponentSet |-> Raised("")]

----------------------------------------------------------------------------
(* The engine's idle state, shared by the specifications that do not use it *)

NoCall == [row |-> 0, scores |-> NoScores, snap |-> DefaultWeights, keys |-> <<>>,
           sum |-> Zero, used |-> <<>>, genBegin |-> 0, genRead |-> 0]

EmptyTable == [cols |-> {}, rows |-> <<>>]
NotProcessed ==
    [state |-> "new", err |-> "", consumers |-> 0, combined |-> EmptyTable,
     features |-> EmptyTable, unified |-> EmptyTable]

NormIdle ==
    /\ df1 = EmptyTable
    /\ df2 = EmptyTable
    /\ norm = NotProcessed

NoUi == [scenario |-> "", sliders |-> <<>>]
NotYetScored == [kind |-> "none", w |-> <<>>, out |-> <<>>]

\* app.py lines 21-26: the session state of a new session; and the rerun:
\* the step main stands at, the risk threshold it read, what it showed
\* last and the counts its views have computed
\* None where a table is expected
None == <<>>

NoSession ==
    [data_loaded |-> FALSE, processed_data |-> None, scoring_engine |-> "None",
     step |-> "idle", risk_threshold |-> Zero, shown |-> "", views |-> <<>>]

\* lines 107-109: the session state once a table is loaded
LoadedSession(d) ==
    [NoSession EXCEPT !.data_loaded = TRUE, !.processed_data = d,
                      !.scoring_engine = "CreditScoringEngine"]

AppIdle ==
    /\ data = <<>>
    /\ ui = NoUi
    /\ scores = NotYetScored
    /\ session = NoSession

FunIdle ==
    /\ arg = <<>>
    /\ result = <<>>

ScorersIdle ==
    /\ row = <<>>
    /\ comps = NotScored
    /\ rec = RaisedRecord("")
    /\ spc = {}

EngineInit ==
    /\ weights = DefaultWeights
    /\ pc = "idle"
    /\ call = NoCall
    /\ returned = <<>>
    /\ supplied = <<DefaultWeights>>

----------------------------------------------------------------------------
(* SpecScorers: the scorers applied to a drawn row *)

ScorersInit ==
    /\ row \in ScorerRows
    /\ comps = NotScored
    /\ rec = RaisedRecord("")
    /\ spc = {}
    /\ EngineInit
    /\ NormIdle
    /\ AppIdle
    /\ FunIdle

\* each of the five component scorers called on row
ApplyScorers ==
    /\ "comps" \notin spc
    /\ comps' = ScoresOf(row)
    /\ spc' = spc \cup {"comps"}
    /\ UNCHANGED <<row, rec, engineVars, normVars, appVars, funVars>>

\* calculate_individual_scores(row) on a newly constructed engine
ScoreIndividual ==
    /\ "rec" \notin spc
    /\ rec' = calculate_individual_scores(DefaultWeights, row)
    /\ spc' = spc \cup {"rec"}
    /\ UNCHANGED <<row, comps, engineVars, normVars, appVars, funVars>>

ScorersNext == ApplyScorers \/ ScoreIndividual

SpecScorers == ScorersInit /\ [][ScorersNext]_vars


----------------------------------------------------------------------------
(* Claims about the scorers (checked under SpecScorers) *)

NoneOf(c, r) == \A f \in FieldsOf(c) : ~Has(r, f)

\* C1: on a row whose numeric fields are finite numbers (negative ones
\* included) or absent, every component scorer that returns, returns a value
\* in [0,1].
C1_ComponentsBounded ==
    ("comps" \in spc /\ AllNumbersFinite(row)) =>
        \A c \in ComponentSet : comps[c].err = "" => InUnit(comps[c].v)

\* C2: a component none of whose recognized attributes is present and
\* non-null on the row scores exactly 0.5, whatever else the row holds.
C2_NeutralDefault ==
    "comps" \in spc =>
        \A c \in ComponentSet : NoneOf(c, row) => comps[c] = Returned(Half)

\* a row without any capital attribute but with a credit score that moves
\* the character score away from 0.5
C2_Witness ==
    /\ "comps" \in spc
    /\ NoneOf("capital", row)
    /\ Has(row, "credit_score_raw")
    /\ comps["capital"] = Returned(Half)
    /\ comps["character"].err = ""
    /\ comps["character"].v # Half

\* C4: calculate_individual_scores returns a record, without raising, on
\* every row whose numeric fields are finite numbers (zero included) or
\* absent/NaN.
C4_NeverRaises ==
    ("rec" \in spc /\ AllNumbersFinite(row)) => rec.err = ""

\* payment_delays = 0, credit_history_years >= 10, credit_score_raw >= 850
\* and management_experience >= 15, all present
Saturated(r) ==
    /\ \A f \in {"payment_delays", "credit_history_years", "credit_score_raw",
                 "management_experience"} : Has(r, f) /\ IsNum(r[f])
    /\ RatOf(r["payment_delays"]) = Zero
    /\ RGe(RatOf(r["credit_history_years"]), Q(10, 1))
    /\ RGe(RatOf(r["credit_score_raw"]), Q(850, 1))
    /\ RGe(RatOf(r["management_experience"]), Q(15, 1))

\* C16: on a row whose four character attributes are present and saturated,
\* each character sub-score is 1.0 and calculate_character_score returns
\* exactly 1.0.
C16_SaturatedCharacter ==
    ("comps" \in spc /\ Saturated(row)) =>
        /\ payment_score(RatOf(row["payment_delays"])) = One
        /\ credit_years_score(RatOf(row["credit_history_years"])) = One
        /\ normalized_score(RatOf(row["credit_score_raw"])) = One
        /\ exp_score(RatOf(row["management_experience"])) = One
        /\ comps["character"] = Returned(One)

\* the row of the scenario: payment_delays 0, credit_history_years 10,
\* credit_score_raw 850, management_experience 15
C16_Witness ==
    /\ "comps" \in spc
    /\ row = [credit_history_years |-> Int2V(10), payment_delays |-> Int2V(0),
              credit_score_raw |-> Int2V(850), management_experience |-> Int2V(15)]
    /\ comps["character"] = Returned(One)


----------------------------------------------------------------------------
(* Spec: one engine, update_weights running beside calculate_individual_   *)
(* scores.  The call is cut where another thread can run between two of   *)
(* its reads of shared state: after the five scorers, after the generator *)
(* has taken self.weights.items(), and between two items of the sum.      *)

\* how many update_weights calls and how many scoring calls a run makes
MaxUpdates == 1
MaxReturned == 2

\* the maps passed to update_weights: app.py's Crisis/Recession scenario,
\* its Custom Configuration entry with the threshold key, which main passes
\* on whole when every slider is 0, and a map that omits three components
CrisisWeights ==
    [character |-> Q(25, 100), capacity |-> Q(20, 100), capital |-> Q(30, 100),
     collateral |-> Q(10, 100), conditions |-> Q(30, 100)]
ScenarioConfig ==
    [character |-> Q(20, 100), capacity |-> Q(30, 100), capital |-> Q(25, 100),
     collateral |-> Q(15, 100), conditions |-> Q(10, 100), threshold |-> Q(60, 100)]
PartialWeights == [character |-> Q(1, 2), capacity |-> Q(1, 2)]

WeightMaps == {CrisisWeights, ScenarioConfig, PartialWeights}

\* the engine's table: a row on which all five components score 0.6, a
\* consumer row, and a row with no assets
EngineData ==
    << [payment_delays |-> Int2V(4), current_ratio |-> Int2V(1),
        debt_to_equity |-> Num(Q(3, 2)), loan_to_value |-> Num(Q(9, 10)),
        industry |-> Txt("retail")],
       [payment_delays |-> Int2V(0), credit_score_raw |-> Int2V(900), age |-> Int2V(50),
        borrower_type |-> Txt("consumer")],
       [working_capital |-> Int2V(-100), total_assets |-> Int2V(0)] >>

Init == EngineInit /\ ScorersIdle /\ NormIdle /\ AppIdle /\ FunIdle

\* update_weights(w)
UpdateWeights(w) ==
    /\ Len(supplied) <= MaxUpdates
    /\ weights' = NewWeights(weights, w)
    /\ supplied' = Append(supplied, w)
    /\ UNCHANGED <<pc, call, returned, scorerVars, normVars, appVars, funVars>>

Outcome(out) ==
    [row |-> call.row, out |-> out, used |-> call.used,
     genBegin |-> call.genBegin, genRead |-> call.genRead, genEnd |-> Len(supplied)]

\* calculate_individual_scores(data[i]), lines 350-356: the five scorers
Begin(i) ==
    /\ pc = "idle"
    /\ Len(returned) < MaxReturned
    /\ LET sc == ScoresOf(EngineData[i])
           c == [NoCall EXCEPT !.row = i, !.scores = ScoreValues(sc),
                               !.genBegin = Len(supplied)]
       IN  IF ScoresErr(sc) # ""
           THEN /\ returned' = Append(returned,
                        [row |-> i, out |-> RaisedRecord(ScoresErr(sc)), used |-> <<>>,
                         genBegin |-> Len(supplied), genRead |-> Len(supplied),
                         genEnd |-> Len(supplied)])
                /\ UNCHANGED <<pc, call>>
           ELSE /\ pc' = "read"
                /\ call' = c
                /\ UNCHANGED returned
    /\ UNCHANGED <<weights, supplied, scorerVars, normVars, appVars, funVars>>

\* line 360: the generator is created over self.weights.items()
ReadWeights ==
    /\ pc = "read"
    /\ call' = [call EXCEPT !.snap = weights, !.keys = Items(weights),
                            !.genRead = Len(supplied)]
    /\ pc' = "sum"
    /\ UNCHANGED <<weights, returned, supplied, scorerVars, normVars, appVars, funVars>>

\* lines 359-360: one item of the sum
AddTerm ==
    /\ pc = "sum"
    /\ call.keys # <<>>
    /\ LET k == Head(call.keys)
       IN  IF TermKnown(k)
           THEN LET w == IterWeight(call.snap, weights, k)
                IN  /\ call' = [call EXCEPT
                                  !.keys = Tail(call.keys),
                                  !.sum = RAdd(call.sum, RMul(call.scores[k], w)),
                                  !.used = Append(call.used, [key |-> k, weight |-> w])]
                    /\ UNCHANGED <<pc, returned>>
           ELSE /\ returned' = Append(returned, Outcome(RaisedRecord("KeyError")))
                /\ pc' = "idle"
                /\ call' = NoCall
    /\ UNCHANGED <<weights, supplied, scorerVars, normVars, appVars, funVars>>

\* lines 361-363: scores['total_score'] = total_score; return scores
Return ==
    /\ pc = "sum"
    /\ call.keys = <<>>
    /\ returned' = Append(returned, Outcome(ScoreRecord(call.scores, call.sum)))
    /\ pc' = "idle"
    /\ call' = NoCall
    /\ UNCHANGED <<weights, supplied, scorerVars, normVars, appVars, funVars>>

Next ==
    \/ \E w \in WeightMaps : UpdateWeights(w)
    \/ \E i \in 1..Len(EngineData) : Begin(i)
    \/ ReadWeights
    \/ AddTerm
    \/ Return

Spec == Init /\ [][Next]_vars


----------------------------------------------------------------------------
(* SpecPortfolio: one calculate_portfolio_scores call, update_weights        *)
(* running beside it. The loop of lines 369-372 scores the rows in order,    *)
(* each by a calculate_individual_scores call cut as under Spec.             *)

\* the rows the loop has scored so far are the records returned
NextRow ==
    /\ \A k \in DOMAIN returned : returned[k].out.err = ""
    /\ Begin(Len(returned) + 1)

PortfolioNext ==
    \/ \E w \in WeightMaps : UpdateWeights(w)
    \/ NextRow
    \/ ReadWeights
    \/ AddTerm
    \/ Return

SpecPortfolio == Init /\ [][PortfolioNext]_vars

\* C29: the score records of one calculate_portfolio_scores call are all
\* totalled with one and the same weight set, also when update_weights runs
\* while the call is in flight: no two rows of the result were weighted
\* differently.
C29_OneWeightSetPerPortfolio ==
    \A a, b \in DOMAIN returned :
        (returned[a].out.err = "" /\ returned[b].out.err = "") =>
            returned[a].used = returned[b].used


----------------------------------------------------------------------------
(* Claims about the engine (checked under Spec) *)

\* the sum over exactly the five components, a component the map omits
\* adding nothing
RECURSIVE FiveSum(_, _, _)
FiveSum(sv, w, i) ==
    IF i = 0 THEN Zero
    ELSE RAdd(FiveSum(sv, w, i - 1),
              IF Components[i] \in DOMAIN w
              THEN RMul(sv[Components[i]], w[Components[i]]) ELSE Zero)

ScorersReturn(i) == ScoresErr(ScoresOf(EngineData[i])) = ""

\* C3: whatever map update_weights was given (one with an extra key such as
\* threshold, one that omits a component), a call that no update overlaps
\* returns total_score = the sum over the five components of weight x score.
C3_TotalIsWeightedSum ==
    \A i \in DOMAIN returned :
        LET o == returned[i]
        IN  (ScorersReturn(o.row) /\ o.genBegin = o.genEnd) =>
                /\ o.out.err = ""
                /\ o.out.total_score =
                       FiveSum(o.out.scores, supplied[o.genRead], Len(Components))

\* C9: every call's outcome is the one calculate_individual_scores gives
\* under the map of the latest update_weights before the call read the
\* weights, and what was returned earlier stays as it was returned.
C9_LatestWeightsUsed ==
    \A i \in DOMAIN returned :
        returned[i].out =
            calculate_individual_scores(supplied[returned[i].genRead],
                                        EngineData[returned[i].row])

\* the same row scored before and after update_weights(CrisisWeights): the
\* two totals differ and the first is still the total under the first map
C9_Witness ==
    /\ Len(returned) = 2
    /\ returned[1].row = returned[2].row
    /\ returned[1].out.err = "" /\ returned[2].out.err = ""
    /\ returned[1].genRead = 1 /\ returned[2].genRead = 2
    /\ returned[1].genEnd = 1 /\ returned[2].genBegin = 2
    /\ supplied[2] = CrisisWeights
    /\ returned[1].out.total_score # returned[2].out.total_score

OneMap(used, from, to) ==
    \E g \in from..to :
        \A j \in DOMAIN used :
            /\ used[j].key \in DOMAIN supplied[g]
            /\ used[j].weight = supplied[g][used[j].key]

\* C10: the weights a call multiplies by, those of a call in flight
\* included, all come from one map among those the engine held during the
\* call; never some from the old map and some from the new.
C10_NoMixedWeights ==
    /\ pc = "sum" => OneMap(call.used, call.genBegin, Len(supplied))
    /\ \A i \in DOMAIN returned :
           OneMap(returned[i].used, returned[i].genBegin, returned[i].genEnd)

\* a call that returned a total over five weights although update_weights
\* replaced the map by a different one while the sum was being formed
C10_Witness ==
    \E i \in DOMAIN returned :
        LET o == returned[i]
        IN  /\ o.out.err = ""
            /\ Len(o.used) = 5
            /\ o.genRead < o.genEnd
            /\ \A c \in ComponentSet :
                   /\ c \in DOMAIN supplied[o.genEnd]
                   /\ supplied[o.genRead][c] # supplied[o.genEnd][c]


----------------------------------------------------------------------------
(* SpecScaled: the engine of Spec, with update_weights given multiples of  *)
(* the constructor's map.                                                  *)

\* the map w with each of its weights multiplied by k
ScaledWeights(w, k) == [c \in DOMAIN w |-> RMul(w[c], k)]

\* the factors the constructor's weights are scaled by
ScaleFactors == {Q(2, 1), Q(1, 2), Q(3, 1)}
ScaledMaps == {ScaledWeights(DefaultWeights, k) : k \in ScaleFactors}

ScaledNext ==
    \/ \E w \in ScaledMaps : UpdateWeights(w)
    \/ \E i \in 1..Len(EngineData) : Begin(i)
    \/ ReadWeights
    \/ AddTerm
    \/ Return

SpecScaled == Init /\ [][ScaledNext]_vars

\* the map b is the map a with every weight multiplied by k
IsScaled(a, b, k) == DOMAIN a = DOMAIN b /\ \A c \in DOMAIN a : b[c] = RMul(a[c], k)

\* C15: if the map one call ran under is k times the map another call on the
\* same row ran under, k > 0, its total_score is k times the other's and
\* its five component scores are the other's.
C15_WeightLinearity ==
    \A i, j \in DOMAIN returned :
        \A k \in ScaleFactors \cup {RDiv(x, y) : x, y \in ScaleFactors} :
            (/\ returned[i].row = returned[j].row
             /\ returned[i].out.err = ""
             /\ IsScaled(supplied[returned[i].genRead], supplied[returned[j].genRead], k))
                => /\ returned[j].out.err = ""
                   /\ returned[j].out.scores = returned[i].out.scores
                   /\ returned[j].out.total_score = RMul(returned[i].out.total_score, k)

\* one row scored under the constructor's map and again after
\* update_weights has tripled every weight: the second total is three times
\* the first
C15_Witness ==
    /\ Len(returned) >= 2
    /\ returned[1].row = returned[2].row
    /\ returned[1].out.err = "" /\ returned[2].out.err = ""
    /\ supplied[returned[1].genRead] = DefaultWeights
    /\ supplied[returned[2].genRead] = ScaledWeights(DefaultWeights, Q(3, 1))
    /\ returned[1].out.total_score # Zero
    /\ returned[2].out.total_score = RMul(returned[1].out.total_score, Q(3, 1))


----------------------------------------------------------------------------
(* SpecApp: the dashboard.  Every rerun of main reads the sidebar, builds  *)
(* a weight map and passes it to update_weights; the tabs then score the   *)
(* engine's table.  The reruns of one session follow one another, so each  *)
(* call is one step.                                                       *)

\* app.py lines 150-171
ScenarioOptions ==
    [s \in {"Normal Conditions", "Crisis/Recession", "MSME Expansion (KUR Program)",
            "Government Budget Efficiency", "Custom Configuration"} |->
        CASE s = "Normal Conditions" -> DefaultWeights @@ [threshold |-> Q(60, 100)]
          [] s = "Crisis/Recession" -> CrisisWeights @@ [threshold |-> Q(70, 100)]
          [] s = "MSME Expansion (KUR Program)" ->
                 [character |-> Q(15, 100), capacity |-> Q(25, 100), capital |-> Q(20, 100),
                  collateral |-> Q(30, 100), conditions |-> Q(10, 100),
                  threshold |-> Q(55, 100)]
          [] s = "Government Budget Efficiency" ->
                 [character |-> Q(20, 100), capacity |-> Q(30, 100), capital |-> Q(25, 100),
                  collateral |-> Q(10, 100), conditions |-> Q(40, 100),
                  threshold |-> Q(70, 100)]
          [] s = "Custom Configuration" -> ScenarioConfig]

\* the named scenarios of the catalog
Catalog == DOMAIN ScenarioOptions \ {"Custom Configuration"}

\* the positions the five weight sliders are drawn from, in steps of 0.05:
\* 0.0, 0.35 and 1.0
SliderStops == {Q(0, 20), Q(7, 20), Q(20, 20)}
SliderSettings == [ComponentSet -> SliderStops]

\* the sum of the five component weights of a map (a component it omits
\* adds nothing)
RECURSIVE SumOfFive(_, _)
SumOfFive(w, i) ==
    IF i = 0 THEN Zero
    ELSE RAdd(SumOfFive(w, i - 1),
              IF Components[i] \in DOMAIN w THEN w[Components[i]] ELSE Zero)

\* lines 205-211
Normalized(sl, total_weight) == [c \in ComponentSet |-> RDiv(sl[c], total_weight)]

\* lines 191-222: the map main passes to update_weights
main_weights(scenario, sl) ==
    IF scenario = "Custom Configuration"
    THEN IF RGt(SumOfFive(sl, Len(Components)), Zero)
         THEN Normalized(sl, SumOfFive(sl, Len(Components)))
         ELSE ScenarioOptions[scenario]
    ELSE [c \in ComponentSet |-> ScenarioOptions[scenario][c]]

\* rows that every scorer scores: one with every attribute at its best, one
\* on which all five components score 0.6, and a consumer row
StrongRow ==
    [payment_delays |-> Int2V(0), current_ratio |-> Int2V(2),
     debt_to_equity |-> Num(Q(1, 2)), loan_to_value |-> Num(Q(1, 2)),
     industry |-> Txt("healthcare")]

\* the tables an engine is constructed with: the second holds a row whose
\* capital score raises
PortfolioTables ==
    { <<StrongRow, EngineData[1], EngineData[2]>>, <<EngineData[2], EngineData[3]>> }

\* a loop that stores each total in the row it scored
RowsWritten(d, out) == [i \in DOMAIN d |-> d[i] @@ [total_score |-> Num(out[i].total_score)]]

\* lines 369-372: the loop reads each row and writes 'index' into the dict
\* the call returned; neither it nor the scorers assign to the row or to
\* self.data
RowsAfterScoring(d, out) == d

\* calculate_portfolio_scores: the rows scored in order; the first call that
\* raises ends the loop and the exception leaves the method
portfolio_records(w, d) == [i \in DOMAIN d |-> calculate_individual_scores(w, d[i])] @@ <<>>
FirstRaised(recs) ==
    IF \A i \in DOMAIN recs : recs[i].err = "" THEN ""
    ELSE recs[CHOOSE i \in DOMAIN recs :
                 /\ recs[i].err # ""
                 /\ \A j \in 1..(i - 1) : recs[j].err = ""].err
PortfolioOutcome(recs) ==
    IF FirstRaised(recs) # "" THEN [err |-> FirstRaised(recs), rows |-> <<>>]
    ELSE [err |-> "", rows |-> recs]
calculate_portfolio_scores(w, d) == PortfolioOutcome(portfolio_records(w, d))

AppInit ==
    /\ data \in PortfolioTables
    /\ ui = NoUi
    /\ scores = NotYetScored
    /\ session = LoadedSession(data)
    /\ EngineInit
    /\ ScorersIdle
    /\ NormIdle
    /\ FunIdle

\* a rerun of main, lines 191-233, with the sidebar at scenario and sliders
\* sl (shown in custom mode only); what the tabs of the rerun before had
\* computed is gone
Main(scenario, sl) ==
    /\ ui' = [scenario |-> scenario, sliders |-> sl]
    /\ weights' = NewWeights(weights, main_weights(scenario, sl))
    /\ scores' = NotYetScored
    /\ UNCHANGED <<data, session, pc, call, returned, supplied, scorerVars, normVars,
                   funVars>>

\* a tab calls calculate_portfolio_scores()
PortfolioScores ==
    /\ ui # NoUi
    /\ \E out \in {calculate_portfolio_scores(weights, data)} :
          /\ scores' = [kind |-> "portfolio", w |-> weights, out |-> out]
          /\ data' = IF out.err = "" THEN RowsAfterScoring(data, out.rows) ELSE data
    /\ UNCHANGED <<ui, session, engineVars, scorerVars, normVars, funVars>>

\* the individual tab calls calculate_individual_scores(data.iloc[i])
IndividualScores(i) ==
    /\ ui # NoUi
    /\ \E out \in {calculate_individual_scores(weights, data[i])} :
          scores' = [kind |-> "individual", w |-> weights,
                     out |-> [err |-> out.err, rows |-> <<out>>]]
    /\ UNCHANGED <<data, ui, session, engineVars, scorerVars, normVars, funVars>>

AppNext ==
    \/ \E scenario \in Catalog : Main(scenario, <<>>)
    \/ \E sl \in SliderSettings : Main("Custom Configuration", sl)
    \/ PortfolioScores
    \/ \E i \in DOMAIN data : IndividualScores(i)

SpecApp == AppInit /\ [][AppNext]_vars


----------------------------------------------------------------------------
(* Claims about the dashboard and the engine's table (checked under SpecApp) *)

\* C11: no scoring call and no weight update changes the engine's table: in
\* every step of main, calculate_portfolio_scores and
\* calculate_individual_scores, every row and field of data stays as it was.
C11_DataUnchanged == [][data' = data]_vars

\* the table after main has run and the whole portfolio has been scored
C11_Witness ==
    /\ data \in PortfolioTables
    /\ ui.scenario \in Catalog
    /\ scores.kind = "portfolio"
    /\ scores.out.err = ""
    /\ Len(scores.out.rows) = Len(data)


\* C12: in custom mode, whatever the five sliders show (all at 0.0
\* included), the map main passes to update_weights holds exactly the five
\* component weights and they sum to 1.
C12_CustomWeightsNormalized ==
    ui.scenario = "Custom Configuration" =>
        /\ DOMAIN weights = ComponentSet
        /\ SumOfFive(weights, Len(Components)) = One

\* every total the last scoring call returned lies in [0,1] if the five
\* component scores it was formed from do
TotalsInUnit ==
    \A i \in DOMAIN scores.out.rows :
        (\A c \in ComponentSet : InUnit(scores.out.rows[i].scores[c])) =>
            InUnit(scores.out.rows[i].total_score)

\* C13: under each named scenario of the catalog the five weights main
\* supplies sum to 1.0, and every total_score a scoring call then returns lies
\* in [0,1] when the component scores do.
C13_CatalogWeightsSumToOne ==
    ui.scenario \in Catalog =>
        /\ SumOfFive(weights, Len(Components)) = One
        /\ (scores.kind # "none" /\ scores.out.err = "") => TotalsInUnit


----------------------------------------------------------------------------
(* SpecDash: the reruns of main, step by step. A rerun with no data loaded   *)
(* shows the load button and the welcome screen; a rerun with data loaded    *)
(* reads the sidebar, calls update_weights and runs the five tabs in order.  *)

\* the positions the Risk Threshold slider of custom mode is drawn from, in
\* steps of 0.05: 0.1, 0.6, 0.65 and 1.0
ThresholdStops == {Q(2, 20), Q(12, 20), Q(13, 20), Q(20, 20)}

\* the weight sliders the dashboard is driven with: all at 0.0, at their
\* defaults, and character alone at 1.0
DashSliders ==
    {[c \in ComponentSet |-> Zero], [c \in ComponentSet |-> DefaultWeights[c]],
     [c \in ComponentSet |-> IF c = "character" THEN One ELSE Zero]}

\* lines 200 and 222
risk_threshold(scenario, th) ==
    IF scenario = "Custom Configuration" THEN th ELSE ScenarioOptions[scenario].threshold

\* what load_data returns: the processed table, or None when the files are
\* missing or the processing raised
LoadOutcomes == PortfolioTables \cup {None}

\* a load that marks the session loaded whatever load_data returned
AfterLoadAlways(s, outcome) ==
    [s EXCEPT !.data_loaded = TRUE, !.processed_data = outcome,
              !.scoring_engine = IF outcome = None THEN "None" ELSE "CreditScoringEngine",
              !.shown = IF outcome = None THEN "error" ELSE "success"]

\* lines 105-111: the session state after the load button was pressed
AfterLoad(s, outcome) ==
    IF outcome # None
    THEN [LoadedSession(outcome) EXCEPT !.shown = "success"]
    ELSE [s EXCEPT !.shown = "error"]

\* (scores['total_score'] < cut).sum()
HighRisk(rows, cut) == Cardinality({i \in DOMAIN rows : RLt(rows[i].total_score, cut)})

DashInit ==
    /\ EngineInit
    /\ ScorersIdle
    /\ NormIdle
    /\ AppIdle
    /\ FunIdle

\* lines 101-111: a rerun with no data loaded in which the load button is
\* pressed; a table loaded constructs the engine and reruns
LoadData(outcome) ==
    /\ ~session.data_loaded
    /\ session.step = "idle"
    /\ session' = AfterLoad(session, outcome)
    /\ data' = IF outcome # None THEN outcome ELSE data
    /\ weights' = IF outcome # None THEN DefaultWeights ELSE weights
    /\ UNCHANGED <<ui, scores, pc, call, returned, supplied, scorerVars, normVars, funVars>>

\* lines 113-137: a rerun with no data loaded and the button not pressed
Welcome ==
    /\ ~session.data_loaded
    /\ session.step = "idle"
    /\ session' = [session EXCEPT !.shown = "welcome"]
    /\ UNCHANGED <<data, ui, scores, engineVars, scorerVars, normVars, funVars>>

\* lines 139-233: a rerun with data loaded reads the sidebar and calls
\* update_weights
Sidebar(scenario, sl, th) ==
    /\ session.data_loaded
    /\ session.step = "idle"
    /\ ui' = [scenario |-> scenario, sliders |-> sl]
    /\ weights' = NewWeights(weights, main_weights(scenario, sl))
    /\ scores' = NotYetScored
    /\ session' = [session EXCEPT !.step = "portfolio_overview",
                                  !.risk_threshold = risk_threshold(scenario, th),
                                  !.shown = "", !.views = <<>>]
    /\ UNCHANGED <<data, pc, call, returned, supplied, scorerVars, normVars, funVars>>

\* the session after a tab's scoring call: an exception ends the rerun, a
\* result is shown and the next tab runs
AfterView(s, tab, next, w, out, counted, cut) ==
    IF out.err # ""
    THEN [s EXCEPT !.step = "idle", !.shown = out.err]
    ELSE [s EXCEPT !.step = next,
                   !.views = Append(@, [view |-> tab, w |-> w, rows |-> out.rows,
                                        counted |-> counted,
                                        high_risk |-> HighRisk(out.rows, cut)])]

\* a tab that calls calculate_portfolio_scores() and counts the rows whose
\* total_score is below cut
PortfolioTab(tab, next, counted, cut) ==
    /\ session.step = tab
    /\ \E out \in {calculate_portfolio_scores(weights, data)} :
          /\ scores' = [kind |-> "portfolio", w |-> weights, out |-> out]
          /\ data' = IF out.err = "" THEN RowsAfterScoring(data, out.rows) ELSE data
          /\ session' = AfterView(session, tab, next, weights, out, counted, cut)
    /\ UNCHANGED <<ui, engineVars, scorerVars, normVars, funVars>>

\* lines 259-282: high_risk_count against risk_threshold
PortfolioOverview ==
    PortfolioTab("portfolio_overview", "individual_analysis", TRUE, session.risk_threshold)

\* lines 325-364: the borrower selected is scored (no row, no selection)
IndividualAnalysis(i) ==
    /\ session.step = "individual_analysis"
    /\ i = 0 <=> DOMAIN data = {}
    /\ \E out \in {IF i = 0 THEN [err |-> "", rows |-> <<>>]
                   ELSE [err |-> calculate_individual_scores(weights, data[i]).err,
                         rows |-> <<calculate_individual_scores(weights, data[i])>>]} :
          /\ scores' = [kind |-> "individual", w |-> weights, out |-> out]
          /\ session' = AfterView(session, "individual_analysis", "five_c_deep_dive",
                                  weights, out, FALSE, Zero)
    /\ UNCHANGED <<data, ui, engineVars, scorerVars, normVars, funVars>>

\* lines 662-666
FiveCDeepDive == PortfolioTab("five_c_deep_dive", "risk_assessment", FALSE, Zero)

\* lines 763-772: high_risk against risk_threshold
RiskAssessment ==
    PortfolioTab("risk_assessment", "reports_section", TRUE, session.risk_threshold)

\* lines 873-893: the portfolio report, generated when its button is
\* pressed, counts 'High Risk Count' as (scores['total_score'] < 0.6).sum()
ReportsSection(pressed) == PortfolioTab("reports_section", "idle", pressed, Q(6, 10))

DashNext ==
    \/ \E outcome \in LoadOutcomes : LoadData(outcome)
    \/ Welcome
    \/ \E scenario \in Catalog : Sidebar(scenario, <<>>, Zero)
    \/ \E sl \in DashSliders, th \in ThresholdStops : Sidebar("Custom Configuration", sl, th)
    \/ PortfolioOverview
    \/ \E i \in DOMAIN data \cup {0} : IndividualAnalysis(i)
    \/ FiveCDeepDive
    \/ RiskAssessment
    \/ \E pressed \in BOOLEAN : ReportsSection(pressed)

SpecDash == DashInit /\ [][DashNext]_vars


----------------------------------------------------------------------------
(* Claims about the reruns of the dashboard (checked under SpecDash) *)

Views == session.views

\* C27: every view of the dashboard that counts high-risk borrowers, the
\* portfolio report included, counts the score records whose total_score is
\* below the risk threshold of the scenario selected (or of the custom
\* slider).
C27_ThresholdBuckets ==
    \A k \in DOMAIN Views :
        Views[k].counted =>
            Views[k].high_risk = HighRisk(Views[k].rows, session.risk_threshold)


\* the weights selected in the sidebar, as main passes them to update_weights
SelectedWeights == main_weights(ui.scenario, ui.sliders)

\* C30: in every rerun no scoring call happens unless data_loaded is true
\* with a processed table and a scoring engine in the session;
\* update_weights with the selected scenario's weights has run before every
\* portfolio or individual scoring call of the rerun, so every score shown
\* was computed with the selected weights; and a load that failed leaves
\* data_loaded false.
C30_ScoringGated ==
    /\ (session.step # "idle" \/ Views # <<>> \/ scores # NotYetScored) =>
           /\ session.data_loaded
           /\ session.processed_data # None
           /\ session.scoring_engine # "None"
    /\ session.step # "idle" => weights = SelectedWeights
    /\ scores # NotYetScored => scores.w = SelectedWeights
    /\ \A k \in DOMAIN Views :
           /\ Views[k].w = SelectedWeights
           /\ Views[k].view # "individual_analysis" =>
                  Views[k].rows = portfolio_records(SelectedWeights, data)
           /\ Views[k].view = "individual_analysis" =>
                  \E i \in DOMAIN data :
                      Views[k].rows = <<calculate_individual_scores(SelectedWeights, data[i])>>
    /\ session.shown = "error" => ~session.data_loaded

\* a rerun under MSME Expansion that has run its five tabs, each scored
\* with the weights of that scenario
C30_Witness ==
    /\ session.data_loaded
    /\ ui.scenario = "MSME Expansion (KUR Program)"
    /\ Len(Views) = 5
    /\ session.step = "idle"
    /\ \A k \in DOMAIN Views : Views[k].w["collateral"] = Q(30, 100)


----------------------------------------------------------------------------
(* DataProcessor: cells, columns and tables.                               *)
(* A table is [cols, rows]: the set of its column names and the sequence   *)
(* of its rows, each a function from cols to cells.                        *)

ReplaceChar(s, a, b) ==
    LET Swap(c) == IF c = a THEN b ELSE c
    IN  MapChars(s, Swap, 1)

\* a cleaning whose second replacement produces what its first one removes
CleanNameSwapped(name) == ReplaceChar(ReplaceChar(Lower(name), "-", "_"), " ", "-")

\* line 58: .str.lower().str.replace(' ', '_').str.replace('-', '_')
CleanName(name) == ReplaceChar(ReplaceChar(Lower(name), " ", "_"), "-", "_")

Digits == "0123456789"
IsDigit(c) == \E i \in 1..Len(Digits) : CharAt(Digits, i) = c
DigitVal(c) == (CHOOSE i \in 1..Len(Digits) : CharAt(Digits, i) = c) - 1

RECURSIVE DigitsValue(_, _)
DigitsValue(s, acc) ==
    IF Len(s) = 0 THEN acc
    ELSE DigitsValue(SubSeq(s, 2, Len(s)), 10 * acc + DigitVal(CharAt(s, 1)))

\* pd.to_numeric(..., errors='coerce') of one cell: text made of digits is
\* that number, any other text is NaN
ToNumeric(v) ==
    IF ~IsTxt(v) THEN v
    ELSE IF Len(v.s) > 0 /\ \A i \in 1..Len(v.s) : IsDigit(CharAt(v.s, i))
    THEN Int2V(DigitsValue(v.s, 0))
    ELSE NaN

IsZero(v) == IsNum(v) /\ v.n = 0

\* arithmetic on number cells; NaN in, NaN out
VMul(a, b) == IF IsNull(a) \/ IsNull(b) THEN NaN ELSE Num(RMul(RatOf(a), RatOf(b)))
VSub(a, b) == IF IsNull(a) \/ IsNull(b) THEN NaN ELSE Num(RSub(RatOf(a), RatOf(b)))
\* the quotient of two columns, row by row: x/0 is +-inf and 0/0 is NaN
VDiv(a, b) ==
    IF IsNull(a) \/ IsNull(b) THEN NaN
    ELSE IF IsZero(b) THEN (IF a.n = 0 THEN NaN ELSE IF a.n > 0 THEN Inf(1) ELSE Inf(-1))
    ELSE Num(RDiv(RatOf(a), RatOf(b)))
\* np.maximum / np.minimum with a number
VMax(q, v) == IF IsNull(v) THEN NaN ELSE Num(RMax(q, RatOf(v)))
VMinCell(a, b) == IF IsNull(a) \/ IsNull(b) THEN NaN ELSE Num(RMin(RatOf(a), RatOf(b)))

NRows(t) == Len(t.rows)

\* the table with columns cs and rows rs. f @@ <<>> is f itself; TLC then
\* holds the function as the list of its values instead of the rule that
\* computes them
Table(cs, rs) == [cols |-> cs, rows |-> [i \in DOMAIN rs |-> rs[i] @@ <<>>] @@ <<>>]
Col(t, c) == [i \in 1..NRows(t) |-> t.rows[i][c]]
HasTxt(t, c) == \E i \in 1..NRows(t) : IsTxt(t.rows[i][c])

\* df[c] = vals
SetCol(t, c, vals) ==
    Table(t.cols \cup {c},
          [i \in 1..NRows(t) |->
              [f \in t.cols \cup {c} |-> IF f = c THEN vals[i] ELSE t.rows[i][f]]])

Const(t, v) == [i \in 1..NRows(t) |-> v]
Map1(t, c, F(_)) == [i \in 1..NRows(t) |-> F(t.rows[i][c])]
Map2(t, a, b, F(_, _)) == [i \in 1..NRows(t) |-> F(t.rows[i][a], t.rows[i][b])]

\* df.rename(columns={old: new})
RenameCol(t, old, new) ==
    IF old \notin t.cols \/ old = new THEN t
    ELSE Table((t.cols \ {old}) \cup {new},
               [i \in 1..NRows(t) |->
                   [f \in (t.cols \ {old}) \cup {new} |->
                       IF f = new THEN t.rows[i][old] ELSE t.rows[i][f]]])

RECURSIVE RenameAll(_, _)
RenameAll(t, mapping) ==
    IF Len(mapping) = 0 THEN t
    ELSE RenameAll(RenameCol(t, Head(mapping)[1], Head(mapping)[2]), Tail(mapping))

RECURSIVE SelectRows(_, _, _)
SelectRows(rows, Keep(_), i) ==
    IF i > Len(rows) THEN <<>>
    ELSE (IF Keep(rows[i]) THEN <<rows[i]>> ELSE <<>>) \o SelectRows(rows, Keep, i + 1)

\* the table with the columns in cs only
Project(t, cs) ==
    Table(cs, [i \in 1..NRows(t) |-> [f \in cs |-> t.rows[i][f]]])

\* line 58 acts on the caller's table: df.columns = ...
CleanColumns(t) ==
    LET clean == [c \in t.cols |-> CleanName(c)] @@ <<>>
        names == {clean[c] : c \in t.cols}
        from == [f \in names |-> CHOOSE c \in t.cols : clean[c] = f] @@ <<>>
    IN  Table(names, [i \in 1..NRows(t) |-> [f \in names |-> t.rows[i][from[f]]]])

\* line 61: df.dropna(how='all').dropna(axis=1, how='all')
DropEmpty(t) ==
    LET NotEmpty(r) == \E c \in t.cols : ~IsNull(r[c])
        kept == SelectRows(t.rows, NotEmpty, 1)
        cs == {c \in t.cols : \E i \in 1..Len(kept) : ~IsNull(kept[i][c])}
    IN  Project(Table(t.cols, kept), cs)

\* lines 65-71: a column that holds text is replaced by its to_numeric
\* conversion unless that conversion is NaN in every row
CoerceColumn(t, c) ==
    IF HasTxt(t, c) /\ \E i \in 1..NRows(t) : ~IsNull(ToNumeric(t.rows[i][c]))
    THEN Map1(t, c, ToNumeric)
    ELSE Col(t, c)

CoerceNumeric(t) ==
    LET coerced == [c \in t.cols |-> CoerceColumn(t, c) @@ <<>>] @@ <<>>
    IN  Table(t.cols, [i \in 1..NRows(t) |-> [c \in t.cols |-> coerced[c][i]]])

\* _clean_dataframe's return value, from the table with cleaned names
clean_dataframe(t) == CoerceNumeric(DropEmpty(CleanColumns(t)))


----------------------------------------------------------------------------
(* DataProcessor: role-specific processing and the schema union.           *)
(* The random draws of a row are an input: one record per row, with the    *)
(* factor each np.random call gave that row.                               *)

ConsumerMapping ==
    << <<"customerid", "borrower_id">>, <<"name", "borrower_name">>, <<"age", "age">>,
       <<"creditscore", "credit_score_raw">>, <<"transactionamount", "transaction_amount">>,
       <<"loanamount", "loan_amount">>, <<"latepayments", "payment_delays">> >>

SmeMapping ==
    << <<"businessid", "borrower_id">>, <<"businessname", "borrower_name">>,
       <<"annualrevenue", "annual_revenue">>, <<"creditscore", "credit_score_raw">>,
       <<"latepayments", "payment_delays">> >>

\* df[c] read for arithmetic: KeyError without the column, TypeError when
\* the column still holds text
ReadErr(t, c) ==
    IF c \notin t.cols THEN "KeyError" ELSE IF HasTxt(t, c) THEN "TypeError" ELSE ""

RECURSIVE FirstErr(_)
FirstErr(errs) ==
    IF Len(errs) = 0 THEN "" ELSE IF Head(errs) # "" THEN Head(errs) ELSE FirstErr(Tail(errs))

Scaled(t, c, draws, k) == [i \in 1..NRows(t) |-> VMul(t.rows[i][c], Num(draws[i][k]))]

process_consumer_data_err(t) ==
    LET m == RenameAll(t, ConsumerMapping)
    IN  FirstErr(<<ReadErr(m, "transaction_amount"), ReadErr(m, "loan_amount"),
                   ReadErr(m, "age")>>)

\* lines 145-156, on a table that has the three columns they read
process_consumer_data(t, draws) ==
    LET m == RenameAll(t, ConsumerMapping)
        t1 == SetCol(m, "borrower_type", Const(m, Txt("consumer")))
        t2 == SetCol(t1, "annual_income",
                     [i \in 1..NRows(m) |->
                         VMul(VMul(m.rows[i]["transaction_amount"], Int2V(12)),
                              Num(draws[i].income))])
        t3 == SetCol(t2, "current_assets", Scaled(t2, "annual_income", draws, "assets"))
        t4 == SetCol(t3, "current_liabilities", Scaled(t3, "loan_amount", draws, "liab"))
        t5 == SetCol(t4, "total_assets", Scaled(t4, "current_assets", draws, "total"))
        t6 == SetCol(t5, "total_equity", Scaled(t5, "total_assets", draws, "equity"))
        t7 == SetCol(t6, "total_debt", Map2(t6, "total_assets", "total_equity", VSub))
        t8 == SetCol(t7, "credit_history_years",
                     [i \in 1..NRows(m) |->
                         VMax(One, VSub(VSub(m.rows[i]["age"], Int2V(18)),
                                        Int2V(draws[i].hist)))])
        t9 == SetCol(t8, "years_in_business",
                     [i \in 1..NRows(m) |-> VSub(m.rows[i]["age"], Int2V(18))])
    IN  SetCol(t9, "management_experience",
               [i \in 1..NRows(m) |-> VMul(t9.rows[i]["years_in_business"], Num(Q(6, 10)))])

process_sme_data_specific_err(t) ==
    ReadErr(RenameAll(t, SmeMapping), "annual_revenue")

\* lines 190-197: the one-hot industry columns, technology last
IndustryOf(r) ==
    LET Is(c) == c \in DOMAIN r /\ IsNum(r[c]) /\ RatOf(r[c]) = One
    IN  IF Is("industry_technology") THEN "technology"
        ELSE IF Is("industry_retail") THEN "retail"
        ELSE IF Is("industry_healthcare") THEN "healthcare"
        ELSE "other"

\* lines 177-197, on a table that has annual_revenue
process_sme_data_specific(t, draws) ==
    LET m == RenameAll(t, SmeMapping)
        t1 == SetCol(m, "borrower_type", Const(m, Txt("sme")))
        t2 == SetCol(t1, "loan_amount", Scaled(t1, "annual_revenue", draws, "loan"))
        t3 == SetCol(t2, "current_assets", Scaled(t2, "annual_revenue", draws, "assets"))
        t4 == SetCol(t3, "current_liabilities", Scaled(t3, "current_assets", draws, "liab"))
        t5 == SetCol(t4, "total_assets", Scaled(t4, "annual_revenue", draws, "total"))
        t6 == SetCol(t5, "total_equity", Scaled(t5, "total_assets", draws, "equity"))
        t7 == SetCol(t6, "total_debt", Map2(t6, "total_assets", "total_equity", VSub))
        t8 == SetCol(t7, "years_in_business",
                     [i \in 1..NRows(m) |-> Int2V(draws[i].years + 1)])
        t9 == SetCol(t8, "management_experience",
                     [i \in 1..NRows(m) |-> Int2V(draws[i].years + 1 + draws[i].mgmt)])
        t10 == SetCol(t9, "credit_history_years",
                      [i \in 1..NRows(m) |->
                          VMinCell(t9.rows[i]["years_in_business"], Int2V(draws[i].hist + 1))])
    IN  SetCol(t10, "industry", [i \in 1..NRows(m) |-> Txt(IndustryOf(t10.rows[i]))])

\* lines 207-220: one column of the other role's table that this table lacks
FillConsumer(t, c) ==
    IF c = "annual_revenue"
    THEN (IF "annual_income" \in t.cols THEN Col(t, "annual_income") ELSE Const(t, Int2V(0)))
    ELSE Const(t, NaN)

FillSme(t, c) ==
    IF c = "annual_income"
    THEN (IF "annual_revenue" \in t.cols THEN Col(t, "annual_revenue") ELSE Const(t, Int2V(0)))
    ELSE IF c = "age" THEN Const(t, Int2V(35))
    ELSE Const(t, NaN)

Widen(t, all, Fill(_, _)) ==
    Table(all, [i \in 1..NRows(t) |->
                   [c \in all |-> IF c \in t.cols THEN t.rows[i][c] ELSE Fill(t, c)[i]]])

\* a concatenation that puts the SME rows first
SmesFirst(consumers, smes) ==
    LET all == consumers.cols \cup smes.cols
    IN  Table(all, Widen(smes, all, FillSme).rows \o Widen(consumers, all, FillConsumer).rows)

\* pd.concat([consumers_df, smes_df], ignore_index=True)
combine_datasets(consumers, smes) ==
    LET all == consumers.cols \cup smes.cols
    IN  Table(all, Widen(consumers, all, FillConsumer).rows \o Widen(smes, all, FillSme).rows)


----------------------------------------------------------------------------
(* DataProcessor: ratios, engineered features, missing values *)

\* a ratio written without the zero test: df[num] / df[den]
Unguarded(den, quotient) == quotient

\* np.where(df[den] != 0, df[num] / df[den], np.nan), one row
Guarded(den, quotient) == IF IsZero(den) THEN NaN ELSE quotient

\* a ratio column with numerator and denominator exchanged
SwappedRatioCol(t, num, den) ==
    [i \in 1..NRows(t) |->
        Guarded(t.rows[i][den], VDiv(t.rows[i][den], t.rows[i][num]))]

\* a ratio column: np.where(df[den] != 0, df[num] / df[den], np.nan)
RatioCol(t, num, den) ==
    [i \in 1..NRows(t) |->
        Guarded(t.rows[i][den], VDiv(t.rows[i][num], t.rows[i][den]))]

\* a ratio column is added when both of its columns exist
AddRatio(t, name, num, den) ==
    IF num \in t.cols /\ den \in t.cols THEN SetCol(t, name, RatioCol(t, num, den)) ELSE t

\* the same with a second choice of numerator (elif)
AddRatio2(t, name, num, num2, den) ==
    IF num \in t.cols /\ den \in t.cols THEN AddRatio(t, name, num, den)
    ELSE AddRatio(t, name, num2, den)

\* arithmetic on a column that holds text raises
TxtErr(t, used) == IF \E c \in used \cap t.cols : HasTxt(t, c) THEN "TypeError" ELSE ""

\* the columns the ratio arithmetic reads
RatioInputs(t) ==
    LET Both(a, b) == IF a \in t.cols /\ b \in t.cols THEN {a, b} ELSE {}
        Either(a, a2, b) == IF Both(a, b) # {} THEN Both(a, b) ELSE Both(a2, b)
    IN  Both("current_assets", "current_liabilities")
        \cup (IF Both("current_assets", "current_liabilities") # {} /\ "inventory" \in t.cols
              THEN {"inventory"} ELSE {})
        \cup Either("total_debt", "total_liabilities", "total_equity")
        \cup Either("net_income", "ebitda", "debt_service")
        \cup Both("net_income", "total_assets")
        \cup Both("net_income", "total_equity")
        \cup Either("revenue", "sales", "total_assets")
        \cup Both("total_equity", "total_assets")

calculate_financial_ratios_err(t) == TxtErr(t, RatioInputs(t))

calculate_financial_ratios(t) ==
    LET r1 == AddRatio(t, "current_ratio", "current_assets", "current_liabilities")
        r2 == IF {"current_assets", "inventory", "current_liabilities"} \subseteq r1.cols
              THEN SetCol(r1, "quick_ratio",
                     [i \in 1..NRows(r1) |->
                         Guarded(r1.rows[i]["current_liabilities"],
                                 VDiv(VSub(r1.rows[i]["current_assets"], r1.rows[i]["inventory"]),
                                      r1.rows[i]["current_liabilities"]))])
              ELSE r1
        r3 == AddRatio2(r2, "debt_to_equity", "total_debt", "total_liabilities", "total_equity")
        r4 == AddRatio2(r3, "debt_service_coverage_ratio", "net_income", "ebitda", "debt_service")
        r5 == AddRatio(r4, "return_on_assets", "net_income", "total_assets")
        r6 == AddRatio(r5, "return_on_equity", "net_income", "total_equity")
        r7 == AddRatio2(r6, "asset_turnover", "revenue", "sales", "total_assets")
        r8 == IF {"current_assets", "current_liabilities"} \subseteq r7.cols
              THEN SetCol(r7, "working_capital",
                          Map2(r7, "current_assets", "current_liabilities", VSub))
              ELSE r7
    IN  AddRatio(r8, "equity_ratio", "total_equity", "total_assets")

\* the sorted sequence of a sequence of rationals
RECURSIVE Insert(_, _)
Insert(sorted, x) ==
    IF Len(sorted) = 0 THEN <<x>>
    ELSE IF RLe(x, Head(sorted)) THEN <<x>> \o sorted
    ELSE <<Head(sorted)>> \o Insert(Tail(sorted), x)
RECURSIVE SortRats(_)
SortRats(xs) == IF Len(xs) = 0 THEN <<>> ELSE Insert(SortRats(Tail(xs)), Head(xs))

RECURSIVE NumbersOf(_, _)
NumbersOf(cells, i) ==
    IF i > Len(cells) THEN <<>>
    ELSE (IF IsNum(cells[i]) THEN <<RatOf(cells[i])>> ELSE <<>>) \o NumbersOf(cells, i + 1)

\* Series.median(): over the cells that are not NaN; NaN when there is none
Median(cells) ==
    LET xs == SortRats(NumbersOf(cells, 1))
        n == Len(xs)
    IN  IF n = 0 THEN NaN
        ELSE IF n % 2 = 1 THEN Num(xs[(n + 1) \div 2])
        ELSE Num(RDiv(RAdd(xs[n \div 2], xs[n \div 2 + 1]), Q(2, 1)))

\* Series.fillna(v)
FillNa(cells, v) == [i \in 1..Len(cells) |-> IF IsNull(cells[i]) THEN v ELSE cells[i]]

industry_risk_map ==
    << <<"technology", Q(3, 10)>>, <<"healthcare", Q(2, 10)>>, <<"manufacturing", Q(4, 10)>>,
       <<"retail", Q(6, 10)>>, <<"construction", Q(7, 10)>>, <<"hospitality", Q(8, 10)>>,
       <<"oil_gas", Q(9, 10)>> >>

RECURSIVE MinOf(_, _)
MinOf(xs, least) == IF Len(xs) = 0 THEN least ELSE MinOf(Tail(xs), RMin(least, Head(xs)))

RECURSIVE Matching(_, _)
Matching(text, i) ==
    IF i > Len(industry_risk_map) THEN <<>>
    ELSE (IF Contains(text, industry_risk_map[i][1]) THEN <<industry_risk_map[i][2]>> ELSE <<>>)
         \o Matching(text, i + 1)

\* lines 365-368: min([v for k, v in map if k in str(x)] + [0.5]); a cell
\* that is not text is NaN after .str.lower() and gets 0.5
industry_risk(v) ==
    IF IsTxt(v) THEN Num(MinOf(Matching(Lower(v.s), 1), Q(5, 10))) ELSE Num(Q(5, 10))

\* str.extract('(\d+)'): the first run of digits of the text
RECURSIVE DigitRun(_)
DigitRun(s) ==
    IF Len(s) = 0 \/ ~IsDigit(CharAt(s, 1)) THEN ""
    ELSE CharAt(s, 1) \o DigitRun(SubSeq(s, 2, Len(s)))
RECURSIVE FirstDigits(_)
FirstDigits(s) ==
    IF Len(s) = 0 THEN ""
    ELSE IF IsDigit(CharAt(s, 1)) THEN DigitRun(s)
    ELSE FirstDigits(SubSeq(s, 2, Len(s)))

\* lines 373-376, one cell: astype(str), extract, to_numeric, fillna(0)
credit_history_years_of(v) ==
    IF IsTxt(v)
    THEN (IF FirstDigits(v.s) = "" THEN Int2V(0) ELSE Int2V(DigitsValue(FirstDigits(v.s), 0)))
    ELSE IF IsNum(v) THEN Int2V(Abs(v.n) \div v.d)
    ELSE Int2V(0)

\* lines 391-394, one cell
payment_delays_of(v) ==
    LET t == IF IsTxt(v) THEN Lower(v.s) ELSE ""
    IN  IF t = "excellent" THEN Int2V(0)
        ELSE IF t = "good" THEN Int2V(1)
        ELSE IF t = "fair" THEN Int2V(3)
        ELSE IF t = "poor" THEN Int2V(6)
        ELSE IF t = "bad" THEN Int2V(12)
        ELSE Int2V(3)

\* the .str accessor needs a column that holds text
StrErr(t, c) == IF c \in t.cols /\ ~HasTxt(t, c) THEN "AttributeError" ELSE ""

engineer_features_err(t) ==
    FirstErr(<<TxtErr(t, IF {"revenue_current", "revenue_previous"} \subseteq t.cols
                         THEN {"revenue_current", "revenue_previous"}
                         ELSE IF {"revenue", "revenue_lag"} \subseteq t.cols
                         THEN {"revenue", "revenue_lag"} ELSE {}),
               TxtErr(t, IF {"loan_amount", "collateral_value"} \subseteq t.cols
                         THEN {"loan_amount", "collateral_value"} ELSE {}),
               TxtErr(t, IF {"total_assets", "total_liabilities"} \subseteq t.cols
                         THEN {"total_assets", "total_liabilities"} ELSE {}),
               StrErr(t, "industry"),
               StrErr(t, "payment_history")>>)

\* lines 320-321: if 'borrower_id' not in df.columns: range(1, len(df) + 1)
WithBorrowerId(t) ==
    IF "borrower_id" \in t.cols THEN t
    ELSE SetCol(t, "borrower_id", [i \in 1..NRows(t) |-> Int2V(i)])

\* lines 324-335: revenue growth, from whichever pair of columns is there
Growth(t, cur, prev) ==
    SetCol(t, "revenue_growth",
           [i \in 1..NRows(t) |->
               Guarded(t.rows[i][prev],
                       VDiv(VSub(t.rows[i][cur], t.rows[i][prev]), t.rows[i][prev]))])
WithRevenueGrowth(t) ==
    IF {"revenue_current", "revenue_previous"} \subseteq t.cols
    THEN Growth(t, "revenue_current", "revenue_previous")
    ELSE IF {"revenue", "revenue_lag"} \subseteq t.cols
    THEN Growth(t, "revenue", "revenue_lag")
    ELSE t

\* lines 354-368
WithIndustryRisk(t) ==
    IF "industry" \in t.cols
    THEN SetCol(t, "industry_risk", Map1(t, "industry", industry_risk)) ELSE t

\* lines 371-376
WithCreditHistoryYears(t) ==
    IF "credit_history" \in t.cols
    THEN SetCol(t, "credit_history_years", Map1(t, "credit_history", credit_history_years_of))
    ELSE t

\* lines 380-386: to_numeric, then the median of the column, or 5 when the
\* column holds no number
FillExperience(numeric) ==
    IF \E i \in 1..Len(numeric) : ~IsNull(numeric[i])
    THEN FillNa(numeric, Median(numeric))
    ELSE FillNa(numeric, Int2V(5))
WithManagementExperience(t) ==
    IF "management_experience" \in t.cols
    THEN SetCol(t, "management_experience",
                FillExperience(Map1(t, "management_experience", ToNumeric)))
    ELSE t

\* lines 389-394
WithPaymentDelays(t) ==
    IF "payment_history" \in t.cols
    THEN SetCol(t, "payment_delays", Map1(t, "payment_history", payment_delays_of))
    ELSE t

\* _engineer_features: its steps in the order of the source
engineer_features(t) ==
    WithPaymentDelays(
      WithManagementExperience(
        WithCreditHistoryYears(
          WithIndustryRisk(
            AddRatio(AddRatio(WithRevenueGrowth(WithBorrowerId(t)),
                              "loan_to_value", "loan_amount", "collateral_value"),
                     "asset_coverage_ratio", "total_assets", "total_liabilities")))))

\* lines 402-418
RatioDefaults ==
    << <<"current_ratio", Num(Q(12, 10))>>, <<"debt_to_equity", Int2V(1)>>,
       <<"debt_service_coverage_ratio", Num(Q(11, 10))>>,
       <<"return_on_assets", Num(Q(5, 100))>>, <<"return_on_equity", Num(Q(5, 100))>> >>
MedianFilled == <<"quick_ratio", "asset_turnover", "equity_ratio">>

\* lines 421-426
categorical_defaults ==
    << <<"industry", Txt("services")>>, <<"collateral_type", Txt("business_assets")>>,
       <<"market_position", Txt("moderate")>>, <<"economic_outlook", Txt("stable")>> >>

\* lines 433-442
numeric_defaults ==
    << <<"years_in_business", Int2V(5)>>, <<"management_experience", Int2V(8)>>,
       <<"credit_history_years", Int2V(3)>>, <<"payment_delays", Int2V(2)>>,
       <<"revenue_growth", Num(Q(3, 100))>>, <<"industry_growth", Num(Q(2, 100))>>,
       <<"loan_to_value", Num(Q(8, 10))>>, <<"asset_coverage_ratio", Num(Q(12, 10))>> >>

Keys(defaults) == {defaults[j][1] : j \in 1..Len(defaults)}
Lookup(defaults, c) == defaults[CHOOSE j \in 1..Len(defaults) : defaults[j][1] = c][2]

\* what fillna puts into the NaN cells of column c; columns outside the
\* three lists are left as they are
FillValue(t, c) ==
    IF c \in Keys(RatioDefaults) THEN Lookup(RatioDefaults, c)
    ELSE IF \E j \in 1..Len(MedianFilled) : MedianFilled[j] = c THEN Median(Col(t, c))
    ELSE IF c \in Keys(categorical_defaults) THEN Lookup(categorical_defaults, c)
    ELSE IF c \in Keys(numeric_defaults) THEN Lookup(numeric_defaults, c)
    ELSE NaN

handle_missing_values(t) ==
    LET fill == [c \in t.cols |-> FillValue(t, c)] @@ <<>>
    IN  Table(t.cols, [i \in 1..NRows(t) |->
                          [c \in t.cols |->
                              IF IsNull(t.rows[i][c]) THEN fill[c] ELSE t.rows[i][c]]])


----------------------------------------------------------------------------
(* SpecNorm: process_sme_data on two drawn raw tables *)

\* how many rows the two raw tables hold together
MaxRows == 2

\* the factors np.random gives one consumer row: 1 + normal(0, 0.3),
\* uniform(0.1, 0.5), uniform(0.8, 1.2), uniform(1.5, 3.0), uniform(0.2, 0.6),
\* poisson(3)
ConsumerDraws ==
    {[income |-> Q(7, 10), assets |-> Q(1, 5), liab |-> Q(9, 10), total |-> Q(2, 1),
      equity |-> Q(1, 4), hist |-> 0],
     [income |-> Q(13, 10), assets |-> Q(2, 5), liab |-> Q(11, 10), total |-> Q(5, 2),
      equity |-> Q(1, 2), hist |-> 5]}

\* and one SME row: uniform(0.1, 0.3), uniform(0.2, 0.8), uniform(0.4, 1.2),
\* uniform(0.8, 2.5), uniform(0.2, 0.7), poisson(8), poisson(3), poisson(5)
SmeDraws ==
    {[loan |-> Q(1, 5), assets |-> Q(1, 4), liab |-> Q(1, 2), total |-> Q(1, 1),
      equity |-> Q(1, 4), years |-> 2, mgmt |-> 0, hist |-> 6],
     [loan |-> Q(1, 4), assets |-> Q(3, 4), liab |-> Q(1, 1), total |-> Q(2, 1),
      equity |-> Q(1, 2), years |-> 9, mgmt |-> 4, hist |-> 3]}

RawVals(c) ==
    CASE c = "CustomerID" -> {Int2V(1), Int2V(2)}
      [] c = "BusinessID" -> {Int2V(1), Int2V(2)}
      [] c = "Age" -> {Int2V(40)}
      [] c = "TransactionAmount" -> {Int2V(0), Int2V(500)}
      [] c = "LoanAmount" -> {Int2V(0), Int2V(100000)}
      [] c = "Collateral Value" -> {Int2V(0), Int2V(200000)}
      [] c = "AnnualRevenue" -> {Int2V(0), Int2V(10000)}
      [] c = "current_assets" -> {Int2V(7)}
      [] c = "loan_amount" -> {Int2V(5)}

ConsumerColumnSets ==
    {{"CustomerID", "Age", "TransactionAmount", "LoanAmount"},
     {"Age", "TransactionAmount", "LoanAmount"},
     {"CustomerID", "Age", "LoanAmount"},
     {"CustomerID", "Age", "TransactionAmount"},
     {"CustomerID", "TransactionAmount", "LoanAmount"},
     {"Age", "TransactionAmount", "LoanAmount", "Collateral Value"},
     {"Age", "TransactionAmount", "LoanAmount", "current_assets"}}

SmeColumnSets ==
    {{"BusinessID", "AnnualRevenue"}, {"AnnualRevenue"}, {"BusinessID"},
     {"AnnualRevenue", "loan_amount"}}

RECURSIVE RawRows(_)
RawRows(S) ==
    IF S = {} THEN {<<>>}
    ELSE LET c == CHOOSE x \in S : TRUE
         IN  {[g \in DOMAIN r \cup {c} |-> IF g = c THEN v ELSE r[g]] :
                 r \in RawRows(S \ {c}), v \in RawVals(c)}

TablesOver(S, n) == {[cols |-> S, rows |-> rs] : rs \in [1..n -> RawRows(S)]}
ConsumerTables(n) == UNION {TablesOver(S, n) : S \in ConsumerColumnSets}
SmeTables(n) == UNION {TablesOver(S, n) : S \in SmeColumnSets}

\* a consumer table first and an SME table second; with one row each, also
\* the other way round
InputPairs ==
    {p \in UNION {ConsumerTables(n) \X SmeTables(m) :
                     n \in 1..(MaxRows - 1), m \in 1..(MaxRows - 1)} :
        NRows(p[1]) + NRows(p[2]) <= MaxRows}
    \cup (SmeTables(1) \X ConsumerTables(1))

\* the table with an entirely empty row before its rows, and after them
EmptyRowFirst(t) == Table(t.cols, <<[c \in t.cols |-> NaN]>> \o t.rows)
EmptyRowLast(t) == Table(t.cols, Append(t.rows, [c \in t.cols |-> NaN]))

\* pairs of one-row tables with an entirely empty row added to the first
\* table, or to the second
EmptyRowPairs ==
    {<<EmptyRowFirst(p[1]), p[2]>> : p \in ConsumerTables(1) \X SmeTables(1)}
    \cup {<<p[1], EmptyRowLast(p[2])>> : p \in ConsumerTables(1) \X SmeTables(1)}

NormInit ==
    /\ \E p \in InputPairs \cup EmptyRowPairs : df1 = p[1] /\ df2 = p[2]
    /\ norm = NotProcessed
    /\ EngineInit
    /\ ScorersIdle
    /\ AppIdle
    /\ FunIdle

\* an inference that takes the first table for the SME table as soon as it
\* carries the business marker
ConsumerIsByFirst(a, b) ==
    IF "CustomerID" \in a.cols /\ "BusinessID" \in b.cols THEN 1
    ELSE IF "BusinessID" \in a.cols THEN 2
    ELSE 1

\* lines 21-30: which of the two tables is the consumer table
ConsumerIs(a, b) ==
    IF "CustomerID" \in a.cols /\ "BusinessID" \in b.cols THEN 1
    ELSE IF "BusinessID" \in a.cols /\ "CustomerID" \in b.cols THEN 2
    ELSE 1

RaisedBy(e, k) == [NotProcessed EXCEPT !.state = "raised", !.err = e, !.consumers = k]

ConsumersOf(a, b) == IF ConsumerIs(a, b) = 1 THEN a ELSE b
SmesOf(a, b) == IF ConsumerIs(a, b) = 1 THEN b ELSE a

\* lines 33-51 on the two cleaned tables, under the draws dc and ds: the
\* exception that leaves process_sme_data, or the table it returns
\* lines 50-53: the missing values handled, the table stored and returned
Processed(k, features) ==
    [state |-> "returned", err |-> "", consumers |-> k, combined |-> EmptyTable,
     features |-> features, unified |-> handle_missing_values(features)]

\* line 47 on the table with its ratios
Engineered(k, ratios) ==
    IF engineer_features_err(ratios) # ""
    THEN RaisedBy(engineer_features_err(ratios), k)
    ELSE Processed(k, engineer_features(ratios))

\* line 44 on the combined table
WithRatios(k, combined) ==
    IF calculate_financial_ratios_err(combined) # ""
    THEN RaisedBy(calculate_financial_ratios_err(combined), k)
    ELSE Engineered(k, calculate_financial_ratios(combined))

\* lines 41-51 on the combined table, which the record keeps
AfterCombine(k, combined) == [WithRatios(k, combined) EXCEPT !.combined = combined]

process_cleaned(k, consumers_clean, smes_clean, dc, ds) ==
    IF process_consumer_data_err(consumers_clean) # ""
    THEN RaisedBy(process_consumer_data_err(consumers_clean), k)
    ELSE IF process_sme_data_specific_err(smes_clean) # ""
    THEN RaisedBy(process_sme_data_specific_err(smes_clean), k)
    ELSE AfterCombine(k, combine_datasets(process_consumer_data(consumers_clean, dc),
                                        process_sme_data_specific(smes_clean, ds)))

\* one call of process_sme_data on the caller's two tables; _clean_dataframe
\* renames the columns of the tables it is handed
ProcessSmeData ==
    /\ norm.state = "new"
    /\ \E consumers_clean \in {clean_dataframe(ConsumersOf(df1, df2))},
          smes_clean \in {clean_dataframe(SmesOf(df1, df2))} :
          \E dc \in [1..NRows(consumers_clean) -> ConsumerDraws],
             ds \in [1..NRows(smes_clean) -> SmeDraws] :
              norm' = process_cleaned(ConsumerIs(df1, df2), consumers_clean, smes_clean,
                                      dc, ds)
    /\ df1' = CleanColumns(df1)
    /\ df2' = CleanColumns(df2)
    /\ UNCHANGED <<scorerVars, engineVars, appVars, funVars>>

NormNext == ProcessSmeData

SpecNorm == NormInit /\ [][NormNext]_vars


----------------------------------------------------------------------------
(* Claims about process_sme_data, checked under SpecNorm *)

Unified == norm.unified
Features == norm.features
UnifiedRows == 1..NRows(Unified)

\* C5: process_sme_data returns a unified table and raises nothing for
\* every pair of input tables, a consumer table without its
\* transaction-amount, loan-amount or age column and an SME table without its
\* annual-revenue column included.
C5_ProcessNeverRaises == norm.state # "raised"

NoInfinity(t) == \A i \in 1..NRows(t) : \A c \in t.cols : t.rows[i][c].k # "inf"

\* the ratio is NaN after _engineer_features on every row whose denominator
\* is zero, and v after _handle_missing_values
DefaultOnZero(ratio, den, v) ==
    ratio \in Features.cols =>
        \A i \in UnifiedRows :
            IsZero(Features.rows[i][den]) =>
                /\ IsNull(Features.rows[i][ratio])
                /\ Unified.rows[i][ratio] = v

\* C6: a ratio whose denominator is zero on a row is no infinity and raises
\* nothing: it is NaN when the ratios are derived, and in the returned table
\* current_ratio holds 1.2, debt_to_equity 1.0 and loan_to_value 0.8.
C6_ZeroDenominatorDefaults ==
    norm.state = "returned" =>
        /\ NoInfinity(Features)
        /\ NoInfinity(Unified)
        /\ DefaultOnZero("current_ratio", "current_liabilities", Num(Q(12, 10)))
        /\ DefaultOnZero("debt_to_equity", "total_equity", Num(Q(1, 1)))
        /\ DefaultOnZero("loan_to_value", "collateral_value", Num(Q(8, 10)))

\* a returned table with a row of positive current assets and no current
\* liabilities, a row whose collateral value is zero, and a row without
\* equity, each holding the default of its ratio
C6_Witness ==
    /\ norm.state = "returned"
    /\ "loan_to_value" \in Unified.cols
    /\ \E i \in UnifiedRows :
           /\ IsZero(Features.rows[i]["current_liabilities"])
           /\ ~IsZero(Features.rows[i]["current_assets"])
           /\ IsNull(Features.rows[i]["current_ratio"])
           /\ Unified.rows[i]["current_ratio"] = Num(Q(12, 10))
    /\ \E i \in UnifiedRows :
           /\ IsZero(Features.rows[i]["collateral_value"])
           /\ IsNull(Features.rows[i]["loan_to_value"])
           /\ Unified.rows[i]["loan_to_value"] = Num(Q(8, 10))
    /\ \E i \in UnifiedRows :
           /\ IsZero(Features.rows[i]["total_equity"])
           /\ Unified.rows[i]["debt_to_equity"] = Num(Q(1, 1))

\* the rows whose loan_amount is a number and whose collateral_value is a
\* number other than zero
WithCollateral ==
    {i \in UnifiedRows :
        /\ {"loan_amount", "collateral_value"} \subseteq Features.cols
        /\ IsNum(Features.rows[i]["loan_amount"])
        /\ IsNum(Features.rows[i]["collateral_value"])
        /\ ~IsZero(Features.rows[i]["collateral_value"])}

\* C17: every row of the returned table with a non-zero collateral_value
\* holds loan_to_value = loan_amount / collateral_value, as
\* _engineer_features computed it, and a loan_to_value of at most 0.6 has the
\* LTV sub-score 1.0; so loan_amount 100000 with collateral_value 200000
\* gives loan_to_value 0.5 and sub-score 1.0.
C17_LoanToValue ==
    norm.state = "returned" =>
        \A i \in WithCollateral :
            /\ Features.rows[i]["loan_to_value"] =
                   Num(RDiv(RatOf(Features.rows[i]["loan_amount"]),
                            RatOf(Features.rows[i]["collateral_value"])))
            /\ Unified.rows[i]["loan_to_value"] = Features.rows[i]["loan_to_value"]
            /\ RLe(RatOf(Unified.rows[i]["loan_to_value"]), Q(6, 10)) =>
                   ltv_score(RatOf(Unified.rows[i]["loan_to_value"])) = One

\* a returned row with loan_amount 100000 and collateral_value 200000:
\* loan_to_value 0.5, LTV sub-score 1.0
C17_Witness ==
    /\ norm.state = "returned"
    /\ \E i \in WithCollateral :
           /\ Unified.rows[i]["loan_amount"] = Int2V(100000)
           /\ Unified.rows[i]["collateral_value"] = Int2V(200000)
           /\ Unified.rows[i]["loan_to_value"] = Num(Q(1, 2))
           /\ ltv_score(RatOf(Unified.rows[i]["loan_to_value"])) = One

\* the attributes the synthesis of each role writes
ConsumerSynthesized ==
    {"annual_income", "current_assets", "current_liabilities", "total_assets",
     "total_equity", "total_debt"}
SmeSynthesized ==
    {"loan_amount", "current_assets", "current_liabilities", "total_assets",
     "total_equity", "total_debt"}

\* the caller's consumer table and SME table, as process_sme_data told them
\* apart
SourceConsumers == IF norm.consumers = 1 THEN df1 ELSE df2
SourceSmes == IF norm.consumers = 1 THEN df2 ELSE df1

\* every value the source table holds in column c is the value of c in a row
\* of that role in the unified table
SuppliedKept(source, role, c) ==
    \A j \in 1..NRows(source) :
        \E i \in UnifiedRows :
            /\ Unified.rows[i]["borrower_type"] = Txt(role)
            /\ Unified.rows[i][c] = source.rows[j][c]

\* C20: a value the source table supplies for an attribute the synthesis
\* derives (annual_income, current_assets, current_liabilities,
\* total_assets, total_equity, total_debt, and loan_amount of an SME) is
\* still present, unchanged, in the unified table.
C20_SuppliedValuesKept ==
    norm.state = "returned" =>
        /\ \A c \in ConsumerSynthesized \cap SourceConsumers.cols :
               SuppliedKept(SourceConsumers, "consumer", c)
        /\ \A c \in SmeSynthesized \cap SourceSmes.cols :
               SuppliedKept(SourceSmes, "sme", c)

Combined == norm.combined
CombinedRows == 1..NRows(Combined)

\* the columns of each role's table as _combine_datasets receives it
ConsumerProcessedCols ==
    process_consumer_data(clean_dataframe(SourceConsumers),
                          [i \in 1..NRows(SourceConsumers) |->
                              CHOOSE d \in ConsumerDraws : TRUE]).cols
SmeProcessedCols ==
    process_sme_data_specific(clean_dataframe(SourceSmes),
                              [i \in 1..NRows(SourceSmes) |->
                                  CHOOSE d \in SmeDraws : TRUE]).cols

\* the value the schema union is to give row r in a column its role lacks
CrossReferenced(r, c, equivalent) ==
    IF c = equivalent[1] /\ equivalent[2] \in DOMAIN r THEN r[equivalent[2]] ELSE NaN

\* C22: in the combined table a column that only the other role's table
\* has holds, on a consumer row, annual_income for annual_revenue and the
\* missing marker otherwise, and on an SME row annual_revenue for
\* annual_income and the missing marker otherwise, age included: never a
\* constant stand-in value.
C22_MissingColumnsMarked ==
    Combined # EmptyTable =>
        \A i \in CombinedRows :
            /\ Combined.rows[i]["borrower_type"] = Txt("consumer") =>
                   \A c \in Combined.cols \ ConsumerProcessedCols :
                       Combined.rows[i][c] =
                           CrossReferenced(Combined.rows[i], c,
                                           <<"annual_revenue", "annual_income">>)
            /\ Combined.rows[i]["borrower_type"] = Txt("sme") =>
                   \A c \in Combined.cols \ SmeProcessedCols :
                       Combined.rows[i][c] =
                           CrossReferenced(Combined.rows[i], c,
                                           <<"annual_income", "annual_revenue">>)

\* the fields with an explicit default in _handle_missing_values
ExplicitDefaults ==
    Keys(RatioDefaults) \cup Keys(categorical_defaults) \cup Keys(numeric_defaults)

\* C23: in the returned table every column without an explicit default has
\* each value that was missing replaced by the median of the column's
\* non-missing values (so transaction_amount or working_capital on the rows
\* that lacked it); only a column with no non-missing value is left
\* missing.
C23_MedianFallback ==
    norm.state = "returned" =>
        \A c \in Features.cols \ ExplicitDefaults :
            \A i \in UnifiedRows :
                IsNull(Features.rows[i][c]) =>
                    Unified.rows[i][c] = Median(Col(Features, c))

\* the rows of a table that are not entirely empty, by position
NotEmptyRows(t) == {j \in 1..NRows(t) : \E c \in t.cols : ~IsNull(t.rows[j][c])}

\* C25: the returned table holds the rows of the consumer-role table
\* followed by the rows of the SME-role table: as many rows as the two
\* input tables have rows that are not entirely empty, none merged, and
\* each with the borrower_type of the table it came from.
C25_RowsConcatenated ==
    norm.state = "returned" =>
        /\ NRows(Unified) = Cardinality(NotEmptyRows(df1)) + Cardinality(NotEmptyRows(df2))
        /\ \A i \in UnifiedRows :
               Unified.rows[i]["borrower_type"] =
                   IF i <= Cardinality(NotEmptyRows(SourceConsumers))
                   THEN Txt("consumer") ELSE Txt("sme")
        /\ \A i \in UnifiedRows :
               i <= Cardinality(NotEmptyRows(SourceConsumers)) =>
                   \E j \in NotEmptyRows(SourceConsumers) :
                       /\ Cardinality({k \in NotEmptyRows(SourceConsumers) : k <= j}) = i
                       /\ Unified.rows[i]["age"] = SourceConsumers.rows[j]["age"]
                       /\ Unified.rows[i]["loan_amount"] = SourceConsumers.rows[j]["loanamount"]

\* a consumer table with an entirely empty row before its one row, and an
\* SME table of one row: two rows returned, the consumer's first
C25_Witness ==
    /\ norm.state = "returned"
    /\ NRows(SourceConsumers) = Cardinality(NotEmptyRows(SourceConsumers)) + 1
    /\ NRows(Unified) = Cardinality(NotEmptyRows(df1)) + Cardinality(NotEmptyRows(df2))
    /\ NRows(Unified) > 1
    /\ Unified.rows[1]["borrower_type"] = Txt("consumer")
    /\ Unified.rows[NRows(Unified)]["borrower_type"] = Txt("sme")

\* C26: process_sme_data gives table A the SME role and table B the
\* consumer role only when A carries BusinessID and B carries CustomerID; in
\* every other case (no markers, a marker on one table only) A is the
\* consumer table and B the SME table, and the inference raises nothing:
\* a role is assigned in every call.
C26_RoleInference ==
    [][norm'.consumers =
           IF "BusinessID" \in df1.cols /\ "CustomerID" \in df2.cols THEN 2 ELSE 1]_vars

\* a call whose table A carried the business marker and whose table B
\* carried no consumer marker: A is the consumer table
C26_Witness ==
    /\ norm.state # "new"
    /\ "businessid" \in df1.cols
    /\ "customerid" \notin df2.cols
    /\ norm.consumers = 1

\* C28: process_sme_data leaves both tables the caller passed as they
\* were: the same column names, rows and cell values after the call as
\* before it.
C28_InputsUntouched == [][df1' = df1 /\ df2' = df2]_vars

\* C7: every row of the returned table has a borrower_id that is not null
\* and the borrower_type consumer or sme, whether both input tables, one of
\* them or neither carries an ID column.
C7_IdentityPresent ==
    norm.state = "returned" =>
        /\ {"borrower_id", "borrower_type"} \subseteq Unified.cols
        /\ \A i \in UnifiedRows :
               /\ ~IsNull(Unified.rows[i]["borrower_id"])
               /\ Unified.rows[i]["borrower_type"] \in {Txt("consumer"), Txt("sme")}

\* C8: no two rows of the returned table hold the same borrower_id, a
\* consumer row and an SME row whose source IDs coincide included.
C8_BorrowerIdUnique ==
    norm.state = "returned" =>
        \A i, j \in UnifiedRows :
            (/\ i # j
             /\ ~IsNull(Unified.rows[i]["borrower_id"])
             /\ ~IsNull(Unified.rows[j]["borrower_id"]))
                => Unified.rows[i]["borrower_id"] # Unified.rows[j]["borrower_id"]


----------------------------------------------------------------------------
(* SpecFun: functions of the program that keep no state, each applied to   *)
(* arguments drawn from a bounded set.                                     *)

\* CreditScoringEngine.get_risk_assessment with its thresholds exclusive
RiskStrict(score) ==
    IF RGt(score, Q(8, 10)) THEN
        [risk_level |-> "Very Low", recommendation |-> "Approve", color |-> "green",
         description |-> "Excellent creditworthiness with minimal risk"]
    ELSE IF RGt(score, Q(7, 10)) THEN
        [risk_level |-> "Low", recommendation |-> "Approve", color |-> "lightgreen",
         description |-> "Good creditworthiness with low risk"]
    ELSE IF RGt(score, Q(6, 10)) THEN
        [risk_level |-> "Medium", recommendation |-> "Approve with Conditions",
         color |-> "yellow", description |-> "Acceptable risk with monitoring required"]
    ELSE IF RGt(score, Q(4, 10)) THEN
        [risk_level |-> "High", recommendation |-> "Additional Review Required",
         color |-> "orange", description |-> "Higher risk requiring additional analysis"]
    ELSE
        [risk_level |-> "Very High",
         recommendation |-> "Reject or Require Additional Collateral",
         color |-> "red", description |-> "High risk of default"]

\* CreditScoringEngine.get_risk_assessment, lines 379-415
get_risk_assessment(score) ==
    IF RGe(score, Q(8, 10)) THEN
        [risk_level |-> "Very Low", recommendation |-> "Approve", color |-> "green",
         description |-> "Excellent creditworthiness with minimal risk"]
    ELSE IF RGe(score, Q(7, 10)) THEN
        [risk_level |-> "Low", recommendation |-> "Approve", color |-> "lightgreen",
         description |-> "Good creditworthiness with low risk"]
    ELSE IF RGe(score, Q(6, 10)) THEN
        [risk_level |-> "Medium", recommendation |-> "Approve with Conditions",
         color |-> "yellow", description |-> "Acceptable risk with monitoring required"]
    ELSE IF RGe(score, Q(4, 10)) THEN
        [risk_level |-> "High", recommendation |-> "Additional Review Required",
         color |-> "orange", description |-> "Higher risk requiring additional analysis"]
    ELSE
        [risk_level |-> "Very High",
         recommendation |-> "Reject or Require Additional Collateral",
         color |-> "red", description |-> "High risk of default"]

\* the scores classified: -0.10 to 1.10 in steps of 0.05, and the values just
\* under each threshold
RiskScoreVals ==
    {Q(k, 20) : k \in -2..22} \cup {Q(79, 100), Q(69, 100), Q(59, 100), Q(39, 100)}

RiskArgs == [f : {"risk"}, a : RiskScoreVals, b : RiskScoreVals]

\* line 58 on the column index of a table: every name cleaned, in order
clean_columns(columns) == [i \in DOMAIN columns |-> CleanName(columns[i])]

\* the characters of the column names cleaned: a capital, a small letter,
\* a space, a hyphen and an underscore
NameChars == {"A", "b", " ", "-", "_"}
MaxNameLen == 2

RECURSIVE NamesUpTo(_)
NamesUpTo(n) ==
    IF n = 0 THEN {""}
    ELSE LET shorter == NamesUpTo(n - 1)
         IN  shorter \cup {s \o c : s \in shorter, c \in NameChars}

ColumnNames == NamesUpTo(MaxNameLen) \ {""}

\* a table of two columns named a and b
CleanArgs == [f : {"clean"}, a : ColumnNames, b : ColumnNames]

\* the loan amounts scored against a monthly income of 1000 (ratios 0.1 to
\* 2.0 of the yearly income) and an annual revenue of 12000
LoanVals ==
    {Q(k, 1) : k \in {1200, 1800, 2400, 3000, 3600, 4200, 4320, 4800, 6000,
                      7200, 7320, 8400, 9600, 12000, 24000}}
MonthlyIncome == Q(1000, 1)
AnnualRevenue == Q(12000, 1)

LoanArgs == [f : {"loan"}, a : LoanVals, b : LoanVals]

\* the cells of one column read from a file: text that is a number, text
\* that is not, a missing value
CoerceCells == {Txt("12"), Txt("7"), Txt("ab"), NaN}
CoerceLens == 1..3

\* a table with a CustomerID column and one column of such cells
CoerceTables ==
    UNION {{Table({"CustomerID", "Credit Score"},
                  [i \in 1..n |-> [c \in {"CustomerID", "Credit Score"} |->
                                      IF c = "CustomerID" THEN Int2V(i) ELSE cells[i]]]) :
               cells \in [1..n -> CoerceCells]} : n \in CoerceLens}

CoerceArgs == [f : {"coerce"}, t : CoerceTables]

\* industry cells: texts that match one entry of the risk table, two, or
\* none, and a missing value
IndustryCells ==
    {Txt("technology"), Txt("healthcare"), Txt("manufacturing"), Txt("Retail"),
     Txt("construction"), Txt("hospitality"), Txt("oil_gas"),
     Txt("healthcare technology"), Txt("retail hospitality"), Txt("other"),
     Txt("services"), NaN}

\* a table of two rows with an industry column
IndustryTables ==
    {Table({"industry"}, <<[industry |-> a], [industry |-> b]>>) :
        a \in IndustryCells, b \in IndustryCells}

IndustryArgs == [f : {"industry"}, t : IndustryTables]

FunInit ==
    /\ arg \in RiskArgs \cup CleanArgs \cup LoanArgs \cup CoerceArgs \cup IndustryArgs
    /\ result = <<>>
    /\ EngineInit
    /\ ScorersIdle
    /\ NormIdle
    /\ AppIdle

\* get_risk_assessment(a) and get_risk_assessment(b) on one engine
GetRiskAssessment ==
    /\ arg.f = "risk"
    /\ result = <<>>
    /\ result' = <<get_risk_assessment(arg.a), get_risk_assessment(arg.b)>>
    /\ UNCHANGED <<arg, scorerVars, engineVars, normVars, appVars>>

\* _clean_dataframe's line 58 applied to the columns <<a, b>> once, and
\* again to the names it gave
CleanDataframe ==
    /\ arg.f = "clean"
    /\ result = <<>>
    /\ result' = <<clean_columns(<<arg.a, arg.b>>),
                   clean_columns(clean_columns(<<arg.a, arg.b>>))>>
    /\ UNCHANGED <<arg, scorerVars, engineVars, normVars, appVars>>

\* lines 89-120 for two borrowers with the loan amounts a and b: the
\* loan-to-income sub-score of each as a consumer, and the loan-to-revenue
\* sub-score of each as an SME
LoanSubScores ==
    /\ arg.f = "loan"
    /\ result = <<>>
    /\ result' =
           <<[income |-> loan_to_income_score(arg.a, MonthlyIncome),
              revenue |-> loan_to_revenue_score(arg.a, AnnualRevenue)],
             [income |-> loan_to_income_score(arg.b, MonthlyIncome),
              revenue |-> loan_to_revenue_score(arg.b, AnnualRevenue)]>>
    /\ UNCHANGED <<arg, scorerVars, engineVars, normVars, appVars>>

\* _clean_dataframe(t): the table it returns
CleanDataframeValues ==
    /\ arg.f = "coerce"
    /\ result = <<>>
    /\ result' = clean_dataframe(arg.t)
    /\ UNCHANGED <<arg, scorerVars, engineVars, normVars, appVars>>

\* lines 354-368 of _engineer_features on a table with an industry column
IndustryRisk ==
    /\ arg.f = "industry"
    /\ result = <<>>
    /\ result' = WithIndustryRisk(arg.t)
    /\ UNCHANGED <<arg, scorerVars, engineVars, normVars, appVars>>

FunNext ==
    \/ GetRiskAssessment
    \/ CleanDataframe
    \/ LoanSubScores
    \/ CleanDataframeValues
    \/ IndustryRisk

SpecFun == FunInit /\ [][FunNext]_vars


----------------------------------------------------------------------------
(* Claims about the stateless functions (checked under SpecFun) *)

\* the tier and recommendation the classification table gives a score
TierOf(s) ==
    IF RGe(s, Q(8, 10)) THEN <<"Very Low", "Approve">>
    ELSE IF RGe(s, Q(7, 10)) /\ RLt(s, Q(8, 10)) THEN <<"Low", "Approve">>
    ELSE IF RGe(s, Q(6, 10)) /\ RLt(s, Q(7, 10)) THEN <<"Medium", "Approve with Conditions">>
    ELSE IF RGe(s, Q(4, 10)) /\ RLt(s, Q(6, 10)) THEN <<"High", "Additional Review Required">>
    ELSE <<"Very High", "Reject or Require Additional Collateral">>

\* how risky a tier is, 0 the least
Riskiness(level) ==
    CASE level = "Very Low" -> 0
      [] level = "Low" -> 1
      [] level = "Medium" -> 2
      [] level = "High" -> 3
      [] level = "Very High" -> 4

Classified == arg # <<>> /\ arg.f = "risk" /\ result # <<>>

\* C14: get_risk_assessment gives every score the tier and recommendation of
\* its band (>= 0.8 Very Low/Approve, [0.7, 0.8) Low/Approve, [0.6, 0.7)
\* Medium/Approve with Conditions, [0.4, 0.6) High/Additional Review
\* Required, below 0.4 Very High/Reject or Require Additional Collateral),
\* the same for the same score whatever was classified beside it, and never a
\* riskier tier for the higher of two scores; it changes nothing of the engine.
C14_RiskClassification ==
    Classified =>
        /\ <<result[1].risk_level, result[1].recommendation>> = TierOf(arg.a)
        /\ <<result[2].risk_level, result[2].recommendation>> = TierOf(arg.b)
        /\ arg.a = arg.b => result[1] = result[2]
        /\ RLe(arg.a, arg.b) =>
               Riskiness(result[1].risk_level) >= Riskiness(result[2].risk_level)
        /\ weights = DefaultWeights

\* 0.65 classified Medium beside 0.35 classified Very High
C14_Witness ==
    /\ Classified
    /\ arg.a = Q(35, 100) /\ arg.b = Q(65, 100)
    /\ result[1].risk_level = "Very High"
    /\ result[1].recommendation = "Reject or Require Additional Collateral"
    /\ result[2].risk_level = "Medium"
    /\ result[2].recommendation = "Approve with Conditions"

\* a name that is lower-case with no spaces or hyphens
IsCleanName(name) ==
    \A i \in 1..Len(name) :
        /\ CharAt(name, i) \notin {" ", "-"}
        /\ CharAt(name, i) \notin DOMAIN LowerOf

Cleaned == arg # <<>> /\ arg.f = "clean" /\ result # <<>>

\* C18: the column cleaning of _clean_dataframe leaves a name that is
\* already lower-case with no spaces or hyphens unchanged, and cleaning the
\* column names twice gives the names that cleaning them once gives.
C18_CleaningIdempotent ==
    Cleaned =>
        /\ IsCleanName(arg.a) => result[1][1] = arg.a
        /\ IsCleanName(arg.b) => result[1][2] = arg.b
        /\ result[2] = result[1]

\* the columns "A " and "-b" cleaned to "a_" and "_b", once and twice
C18_Witness ==
    /\ Cleaned
    /\ arg.a = "A " /\ arg.b = "-b"
    /\ result[1] = <<"a_", "_b">>
    /\ result[2] = <<"a_", "_b">>

LoansScored == arg # <<>> /\ arg.f = "loan" /\ result # <<>>

\* C19: of two borrowers the one with the higher loan-to-income ratio
\* (loan_amount / (transaction_amount * 12)) never has the higher
\* loan-to-income sub-score, and the one with the higher loan-to-revenue
\* ratio (loan_amount / annual_revenue) never has the higher loan-to-revenue
\* sub-score.
C19_LoanBandsMonotone ==
    LoansScored =>
        (RLe(RDiv(arg.a, RMul(MonthlyIncome, Q(12, 1))),
             RDiv(arg.b, RMul(MonthlyIncome, Q(12, 1)))) =>
            /\ RGe(result[1].income, result[2].income)
            /\ RGe(result[1].revenue, result[2].revenue))

ValuesCleaned == arg # <<>> /\ arg.f = "coerce" /\ result # <<>>

\* the table before the conversion of lines 63-71: names cleaned, empty rows
\* and columns dropped
BeforeCoercion == DropEmpty(CleanColumns(arg.t))

\* text that does not parse as a number
IsNonNumeric(v) == IsTxt(v) /\ IsNull(ToNumeric(v))

\* C21: a column of _clean_dataframe's table that holds at least one
\* non-numeric text value stays textual with every value unchanged, none
\* turned into a missing value; a text column is converted only when every
\* non-null value of it parses as a number.
C21_MixedColumnStaysText ==
    ValuesCleaned =>
        \A c \in BeforeCoercion.cols :
            (\E i \in 1..NRows(BeforeCoercion) : IsNonNumeric(BeforeCoercion.rows[i][c])) =>
                \A i \in 1..NRows(BeforeCoercion) :
                    result.rows[i][c] = BeforeCoercion.rows[i][c]

IndustryRated == arg # <<>> /\ arg.f = "industry" /\ result # <<>>

\* the values of the risk table's entries whose key occurs in the text
MatchingRisks(v) ==
    IF IsTxt(v)
    THEN {industry_risk_map[j][2] : j \in {k \in 1..Len(industry_risk_map) :
                                              Contains(Lower(v.s), industry_risk_map[k][1])}}
    ELSE {}

\* the lowest of a set of values
LowestOf(S) == CHOOSE x \in S : \A y \in S : RLe(x, y)

\* C24: industry_risk of a row is the lowest value among the entries of the
\* industry-to-risk table whose key occurs in the row's industry text, and
\* 0.5 only when no entry matches: retail alone 0.6, construction alone 0.7,
\* healthcare alone 0.2.
C24_LowestMatchingRisk ==
    IndustryRated =>
        \A i \in 1..NRows(result) :
            result.rows[i]["industry_risk"] =
                IF MatchingRisks(arg.t.rows[i]["industry"]) = {} THEN Num(Q(5, 10))
                ELSE Num(LowestOf(MatchingRisks(arg.t.rows[i]["industry"])))


====
